---- MODULE Spec2Model ----
(***************************************************************************)
(* Model of cdxgen's component assembly (index.js): listComponents,        *)
(* addComponent and the helpers they call, and buildBomString, which wraps *)
(* the component lists into the XML-shaped and the JSON-shaped BOM.        *)
(*                                                                         *)
(* Package names, groups and import-map keys are sequences of characters,  *)
(* so that scope parsing, startsWith and string joins are computed as the  *)
(* code computes them. Package records live in a heap (record id ->        *)
(* record) so that object-valued dependency edges can form cycles.         *)
(***************************************************************************)
EXTENDS Integers, Sequences, FiniteSets, TLC

VARIABLES
  heap,                  \* record id -> package record (the objects pkgInfo points into)
  pkgInfo,               \* [isArray, ids]: a single root record or a list of records
  ptype,                 \* ecosystem type handed to listComponents / buildBomString
  allImports,            \* [present, keys]: the import-usage map (keys only matter)
  format,                \* "xml" or "json" (direct listComponents call)
  deterministicForTests, \* buildBomString's flag
  entry,                 \* which exported function the caller invokes
  pc,                    \* "idle", "walk" (inside listComponents) or "done"
  stack,                 \* pending addComponent calls, innermost first
  list,                  \* listComponents' map purl -> component, in insertion order
  visited,               \* record ids addComponent has been called on, in call order
  components,            \* what listComponents returned
  runs,                  \* number of buildBomString runs made
  bom,                   \* what the last buildBomString run handed to the callback
  prevBom,               \* what the run before handed to the callback
  options,               \* createBom's options ([projectType])
  path,                  \* createBom's path: [readable, war, files, poms, gradleMulti]
  dpc,                   \* where the createBom call stands ("off": no call)
  pomIdx,                \* createJavaBom's index into pomFiles
  pkgList,               \* the driver's pkgList
  events,                \* what the createBom call did so far, in order
  env,                   \* the process environment ([TMPDIR])
  args,                  \* the command line ([output, serverUrl, apiKey])
  effects                \* what the command line's callback did so far, in order

asmVars == <<heap, pkgInfo, ptype, allImports, format, deterministicForTests, entry,
             pc, stack, list, visited, components, runs, bom, prevBom>>

drvVars == <<options, path, dpc, pomIdx, pkgList, events, env, args, effects>>

vars == <<asmVars, drvVars>>

inputVars == <<heap, pkgInfo, ptype, allImports, format, deterministicForTests, entry>>

\* no createBom call is under way
DriverOff ==
  /\ options = [projectType |-> ""]
  /\ path = [readable |-> FALSE, war |-> FALSE, files |-> {}, poms |-> 0,
             gradleMulti |-> FALSE]
  /\ dpc = "off"
  /\ pomIdx = 0
  /\ pkgList = <<>>
  /\ events = <<>>
  /\ env = [TMPDIR |-> <<>>]
  /\ args = [output |-> <<>>, serverUrl |-> FALSE, apiKey |-> FALSE]
  /\ effects = <<>>

-----------------------------------------------------------------------------
(* Bounds *)

MaxEdges == 3      \* object-valued dependency edges in one input graph
MaxRuns == 2       \* buildBomString runs in one behaviour

-----------------------------------------------------------------------------
(* Strings as character sequences *)

\* s.startsWith(p)
StartsWith(s, p) == Len(s) >= Len(p) /\ SubSeq(s, 1, Len(p)) = p

\* position of the first "/" in s, 0 when there is none
FirstSlash(s) ==
  IF \E i \in 1..Len(s) : s[i] = "/"
    THEN CHOOSE i \in 1..Len(s) : s[i] = "/" /\ \A j \in 1..(i - 1) : s[j] # "/"
    ELSE 0

\* the JS string a character sequence stands for
RECURSIVE Str(_)
Str(s) == IF s = <<>> THEN "" ELSE s[1] \o Str(Tail(s))

-----------------------------------------------------------------------------
(* Package records (the pkg objects handed to addComponent)                *)
(* A string field that is absent (undefined) is "", which the code's       *)
(* truthiness tests treat alike; dependencies is a sequence of entries in  *)
(* key order, each an object reference (a heap id) or a string.            *)

NoPkg == [name |-> <<>>, group |-> <<>>, version |-> "", extraneous |-> FALSE,
          scope |-> "", hasKeywords |-> FALSE, keywords |-> <<>>, description |-> "",
          homepage |-> "", bugsUrl |-> "", repositoryUrl |-> "",
          shasum |-> <<>>, integrity |-> <<>>, qualifiers |-> "", subpath |-> "",
          license |-> "", dependencies |-> <<>>]

DepObj(k, id) == [key |-> k, isString |-> FALSE, ref |-> id, str |-> ""]
\* a string-valued entry: the code has the string only; ref is the record of the
\* package the entry stands for
DepStr(k, s, id) == [key |-> k, isString |-> TRUE, ref |-> id, str |-> s]

-----------------------------------------------------------------------------
(* parse-packagejson-name: "@scope/rest" gives scope and fullName = rest,  *)
(* anything else gives no scope and fullName = the whole name.             *)

parsePackageJsonName(name) ==
  LET i == FirstSlash(name) IN
  IF Len(name) > 0 /\ name[1] = "@" /\ i > 2 /\ i < Len(name)
    THEN [scope |-> SubSeq(name, 2, i - 1), fullName |-> SubSeq(name, i + 1, Len(name))]
    ELSE [scope |-> <<>>, fullName |-> name]

-----------------------------------------------------------------------------
(* addExternalReferences *)

XmlRef(t, u) == [reference |-> ("@type" :> t @@ "url" :> u)]
JsonRef(t, u) == [type |-> t, url |-> u]

addExternalReferences(pkg, fmt) ==
  LET Ref(t, u) == IF fmt = "xml" THEN XmlRef(t, u) ELSE JsonRef(t, u)
      web == IF pkg.homepage # "" THEN <<Ref("website", pkg.homepage)>> ELSE <<>>
      bug == IF pkg.bugsUrl # "" THEN <<Ref("issue-tracker", pkg.bugsUrl)>> ELSE <<>>
      vcs == IF pkg.repositoryUrl # "" THEN <<Ref("vcs", pkg.repositoryUrl)>> ELSE <<>>
  IN web \o bug \o vcs

-----------------------------------------------------------------------------
(* determinePackageType *)

\* String.prototype.toLowerCase on the keywords the inputs use
toLowerCase(k) ==
  CASE k = "Framework" -> "framework"
    [] k = "FRAMEWORK" -> "framework"
    [] k = "Web" -> "web"
    [] OTHER -> k

determinePackageType(pkg) ==
  IF pkg.hasKeywords /\ \E i \in 1..Len(pkg.keywords) : toLowerCase(pkg.keywords[i]) = "framework"
    THEN "framework"
    ELSE "library"

-----------------------------------------------------------------------------
(* Hashes: HASH_PATTERN, Buffer base64/hex conversion, addComponentHash,   *)
(* processHashes. Digests are character sequences.                         *)

HexLower == <<"0","1","2","3","4","5","6","7","8","9","a","b","c","d","e","f">>
HexUpper == <<"A","B","C","D","E","F">>
HexChars == {HexLower[i] : i \in 1..16} \cup {HexUpper[i] : i \in 1..6}

B64Alphabet ==
  <<"A","B","C","D","E","F","G","H","I","J","K","L","M","N","O","P",
    "Q","R","S","T","U","V","W","X","Y","Z","a","b","c","d","e","f",
    "g","h","i","j","k","l","m","n","o","p","q","r","s","t","u","v",
    "w","x","y","z","0","1","2","3","4","5","6","7","8","9","+","/">>

\* lengths of the hex digests HASH_PATTERN accepts
HashLengths == {32, 40, 64, 96, 128}

\* new RegExp(HASH_PATTERN).test(digest)
HASH_PATTERN(digest) ==
  Len(digest) \in HashLengths /\ \A i \in 1..Len(digest) : digest[i] \in HexChars

\* value of a base64 character (the decoder also takes the URL-safe "-" and "_"), -1 if none
B64Val(c) ==
  IF \E i \in 1..64 : B64Alphabet[i] = c
    THEN (CHOOSE i \in 1..64 : B64Alphabet[i] = c) - 1
    ELSE IF c = "-" THEN 62 ELSE IF c = "_" THEN 63 ELSE -1

\* Buffer.from(digest, "base64"): decoding stops at the first "=", characters
\* outside the alphabet are skipped, left-over bits are dropped
B64Decode(digest) ==
  LET stop == IF \E i \in 1..Len(digest) : digest[i] = "="
                THEN (CHOOSE i \in 1..Len(digest) :
                        digest[i] = "=" /\ \A j \in 1..(i - 1) : digest[j] # "=") - 1
                ELSE Len(digest)
      v == SelectSeq([i \in 1..stop |-> B64Val(digest[i])], LAMBDA x : x >= 0)
      n == (Len(v) * 6) \div 8
      Byte(k) ==
        LET a == ((8 * k) \div 6) + 1
            off == (8 * k) % 6
        IN CASE off = 0 -> v[a] * 4 + (v[a + 1] \div 16)
             [] off = 2 -> (v[a] % 16) * 16 + (v[a + 1] \div 4)
             [] OTHER -> (v[a] % 4) * 64 + v[a + 1]
  IN [k \in 1..n |-> Byte(k - 1)]

\* buffer.toString("base64")
B64Encode(bytes) ==
  LET n == Len(bytes)
      m == (8 * n + 5) \div 6
      At(b) == IF b <= n THEN bytes[b] ELSE 0
      Sextet(j) ==
        LET b == ((6 * j) \div 8) + 1
            off == (6 * j) % 8
        IN CASE off = 0 -> At(b) \div 4
             [] off = 6 -> (At(b) % 4) * 16 + (At(b + 1) \div 16)
             [] off = 4 -> (At(b) % 16) * 4 + (At(b + 1) \div 64)
             [] OTHER -> At(b) % 64
      pad == (4 - (m % 4)) % 4
  IN [j \in 1..m |-> B64Alphabet[Sextet(j - 1) + 1]] \o [j \in 1..pad |-> "="]

\* buffer.toString("hex")
HexEncode(bytes) ==
  [i \in 1..(2 * Len(bytes)) |->
     IF i % 2 = 1 THEN HexLower[(bytes[(i + 1) \div 2] \div 16) + 1]
                  ELSE HexLower[(bytes[i \div 2] % 16) + 1]]

\* the value stored when the base64 test is made before the hex test
HashValue_Base64First(digest) ==
  IF B64Encode(B64Decode(digest)) = digest THEN HexEncode(B64Decode(digest)) ELSE digest

\* the value addComponentHash stores for a digest
HashValue(digest) ==
  IF HASH_PATTERN(digest) THEN digest
  ELSE LET isBase64Encoded == B64Encode(B64Decode(digest)) = digest
       IN IF isBase64Encoded THEN HexEncode(B64Decode(digest)) ELSE digest

XmlHash(alg, text) == [hash |-> ("@alg" :> alg @@ "#text" :> text)]
JsonHash(alg, text) == [alg |-> alg, content |-> text]

\* addComponentHash storing the digest as given in the JSON shape
addComponentHash_JsonRaw(alg, digest, fmt) ==
  IF fmt = "json" THEN JsonHash(alg, digest) ELSE XmlHash(alg, HashValue(digest))

\* addComponentHash: the hash entry pushed onto component.hashes
addComponentHash(alg, digest, fmt) ==
  IF fmt = "json" THEN JsonHash(alg, HashValue(digest)) ELSE XmlHash(alg, HashValue(digest))

\* ssri.parse(...)[algorithm][0].digest: the first digest the integrity string
\* gives for an algorithm; integrity is the list of its "algorithm-digest" entries
HasAlgorithm(integrity, a) == \E i \in 1..Len(integrity) : integrity[i].algorithm = a
FirstDigest(integrity, a) ==
  integrity[CHOOSE i \in 1..Len(integrity) :
              integrity[i].algorithm = a /\ \A j \in 1..(i - 1) : integrity[j].algorithm # a].digest

\* processHashes reading the integrity string before _shasum
processHashes_IntegrityFirst(pkg, fmt) ==
  LET One(alg, a) == IF HasAlgorithm(pkg.integrity, a)
                       THEN <<addComponentHash(alg, FirstDigest(pkg.integrity, a), fmt)>>
                       ELSE <<>>
  IN IF pkg.integrity # <<>>
       THEN One("SHA-512", "sha512") \o One("SHA-384", "sha384")
            \o One("SHA-256", "sha256") \o One("SHA-1", "sha1")
       ELSE IF pkg.shasum # <<>>
         THEN IF fmt = "json" THEN <<JsonHash("SHA-1", pkg.shasum)>>
                              ELSE <<XmlHash("SHA-1", pkg.shasum)>>
         ELSE <<>>

\* processHashes: component.hashes (<<>> stands for the deleted field)
processHashes(pkg, fmt) ==
  LET One(alg, a) == IF HasAlgorithm(pkg.integrity, a)
                       THEN <<addComponentHash(alg, FirstDigest(pkg.integrity, a), fmt)>>
                       ELSE <<>>
  IN IF pkg.shasum # <<>>
       THEN IF fmt = "json" THEN <<JsonHash("SHA-1", pkg.shasum)>>
                            ELSE <<XmlHash("SHA-1", pkg.shasum)>>
       ELSE IF pkg.integrity # <<>>
         THEN One("SHA-512", "sha512") \o One("SHA-384", "sha384")
              \o One("SHA-256", "sha256") \o One("SHA-1", "sha1")
         ELSE <<>>

-----------------------------------------------------------------------------
(* The component map of listComponents: a JS object keyed by purl, kept as *)
(* the sequence of its entries in insertion order. rec is the heap id of   *)
(* the record the component was built from.                                *)

ListHas(l, key) == \E i \in 1..Len(l) : l[i].key = key

\* list[key] = component
ListPut(l, key, component, rec) ==
  IF ListHas(l, key)
    THEN [i \in 1..Len(l) |->
            IF l[i].key = key THEN [key |-> key, component |-> component, rec |-> rec] ELSE l[i]]
    ELSE Append(l, [key |-> key, component |-> component, rec |-> rec])

-----------------------------------------------------------------------------
(* addComponent, one call: the effect on the map and whether the call goes *)
(* on to its dependencies                                                  *)

\* group and name as addComponent derives them from the record
PkgGroup(pkg) ==
  IF pkg.group # <<>> THEN pkg.group ELSE parsePackageJsonName(pkg.name).scope

PkgName(pkg) ==
  LET fullName == parsePackageJsonName(pkg.name).fullName
  IN IF fullName # <<>> THEN fullName ELSE pkg.name

\* the @types test looking at the name only
IsTypesPkg_NameOnly(t, pkg) ==
  t = "npm" /\ StartsWith(PkgName(pkg), <<"@","t","y","p","e","s">>)

\* the npm @types test
IsTypesPkg(t, pkg) ==
  t = "npm" /\ (PkgGroup(pkg) = <<"t","y","p","e","s">>
                \/ StartsWith(PkgName(pkg), <<"@","t","y","p","e","s">>))

\* decodeURIComponent(new PackageURL(...).toString())
PurlString(t, pkg) ==
  "pkg:" \o t \o "/"
    \o (IF PkgGroup(pkg) # <<>> THEN Str(PkgGroup(pkg)) \o "/" ELSE "")
    \o Str(PkgName(pkg))
    \o (IF pkg.version # "" THEN "@" \o pkg.version ELSE "")
    \o (IF pkg.qualifiers # "" THEN "?" \o pkg.qualifiers ELSE "")
    \o (IF pkg.subpath # "" THEN "#" \o pkg.subpath ELSE "")

\* the scope test looking for the name and the joined names only
CompScope_NoGroupKeys(imports, pkg) ==
  LET group == PkgGroup(pkg)
      name == PkgName(pkg)
      impPkgs == imports.keys
  IN IF imports.present
       THEN IF \/ name \in impPkgs
               \/ (group \o <<"/">> \o name) \in impPkgs
               \/ (<<"@">> \o group \o <<"/">> \o name) \in impPkgs
              THEN "required"
              ELSE IF impPkgs # {} THEN "optional" ELSE pkg.scope
       ELSE pkg.scope

\* the scope starting out undefined instead of as the record's own scope
CompScope_NoOwnScope(imports, pkg) ==
  LET group == PkgGroup(pkg)
      name == PkgName(pkg)
      impPkgs == imports.keys
  IN IF imports.present
       THEN IF \/ name \in impPkgs
               \/ (group \o <<"/">> \o name) \in impPkgs
               \/ (<<"@">> \o group \o <<"/">> \o name) \in impPkgs
               \/ group \in impPkgs
               \/ (<<"@">> \o group) \in impPkgs
              THEN "required"
              ELSE IF impPkgs # {} THEN "optional" ELSE ""
       ELSE ""

\* the scope addComponent gives the component ("" when it stores none)
CompScope(imports, pkg) ==
  LET group == PkgGroup(pkg)
      name == PkgName(pkg)
      impPkgs == imports.keys
  IN IF imports.present
       THEN IF \/ name \in impPkgs
               \/ (group \o <<"/">> \o name) \in impPkgs
               \/ (<<"@">> \o group \o <<"/">> \o name) \in impPkgs
               \/ group \in impPkgs
               \/ (<<"@">> \o group) \in impPkgs
              THEN "required"
              ELSE IF impPkgs # {} THEN "optional" ELSE pkg.scope
       ELSE pkg.scope

\* utils.getLicenses: the licence entries of a record, none when it names no licence
getLicenses(pkg, fmt) ==
  IF pkg.license = "" THEN <<>> ELSE <<[license |-> [id |-> pkg.license]]>>

\* the component object without the deletion of its empty hashes and
\* externalReferences fields
Component_KeepsEmptyFields(imports, pkg, t, fmt) ==
  LET purlString == PurlString(t, pkg)
      compScope == CompScope(imports, pkg)
      licenses == getLicenses(pkg, fmt)
      common == [group |-> Str(PkgGroup(pkg)), name |-> Str(PkgName(pkg)),
                 version |-> pkg.version, purl |-> purlString]
      typed == IF fmt = "xml"
                 THEN "@type" :> determinePackageType(pkg) @@ "@bom-ref" :> purlString
                      @@ "description" :> [cdata |-> pkg.description]
                 ELSE "type" :> determinePackageType(pkg) @@ "bom-ref" :> purlString
                      @@ "description" :> pkg.description
  IN common @@ typed
     @@ (IF compScope # "" THEN "scope" :> compScope ELSE <<>>)
     @@ "externalReferences" :> addExternalReferences(pkg, fmt)
     @@ "hashes" :> processHashes(pkg, fmt)
     @@ (IF licenses # <<>> THEN "licenses" :> licenses ELSE <<>>)

\* the component object built for a record
Component(imports, pkg, t, fmt) ==
  LET purlString == PurlString(t, pkg)
      compScope == CompScope(imports, pkg)
      refs == addExternalReferences(pkg, fmt)
      hashes == processHashes(pkg, fmt)
      licenses == getLicenses(pkg, fmt)
      common == [group |-> Str(PkgGroup(pkg)), name |-> Str(PkgName(pkg)),
                 version |-> pkg.version, purl |-> purlString]
      typed == IF fmt = "xml"
                 THEN "@type" :> determinePackageType(pkg) @@ "@bom-ref" :> purlString
                      @@ "description" :> [cdata |-> pkg.description]
                 ELSE "type" :> determinePackageType(pkg) @@ "bom-ref" :> purlString
                      @@ "description" :> pkg.description
  IN common @@ typed
     @@ (IF compScope # "" THEN "scope" :> compScope ELSE <<>>)
     @@ (IF refs # <<>> THEN "externalReferences" :> refs ELSE <<>>)
     @@ (IF hashes # <<>> THEN "hashes" :> hashes ELSE <<>>)
     @@ (IF licenses # <<>> THEN "licenses" :> licenses ELSE <<>>)

\* addComponent deduplicating by the whole component instead of by its purl
addComponent_DedupByComponent(imports, p, t, l, isRootPkg, fmt) ==
  LET pkg == heap[p]
      c == Component(imports, pkg, t, fmt)
  IN
  IF pkg.extraneous THEN [list |-> l, recurse |-> FALSE]
  ELSE IF isRootPkg THEN [list |-> l, recurse |-> TRUE]
  ELSE IF IsTypesPkg(t, pkg) THEN [list |-> l, recurse |-> FALSE]
  ELSE IF \E i \in 1..Len(l) : l[i].component = c THEN [list |-> l, recurse |-> FALSE]
  ELSE [list |-> Append(l, [key |-> PurlString(t, pkg), component |-> c, rec |-> p]),
        recurse |-> TRUE]

\* addComponent without the test that ends the walk at a purl already in the map
addComponent_NoCycleCheck(imports, p, t, l, isRootPkg, fmt) ==
  LET pkg == heap[p] IN
  IF pkg.extraneous THEN [list |-> l, recurse |-> FALSE]
  ELSE IF isRootPkg THEN [list |-> l, recurse |-> TRUE]
  ELSE IF IsTypesPkg(t, pkg) THEN [list |-> l, recurse |-> FALSE]
  ELSE [list |-> ListPut(l, PurlString(t, pkg), Component(imports, pkg, t, fmt), p),
        recurse |-> TRUE]

\* addComponent without the test for records marked extraneous
addComponent_NoExtraneousTest(imports, p, t, l, isRootPkg, fmt) ==
  LET pkg == heap[p] IN
  IF isRootPkg THEN [list |-> l, recurse |-> TRUE]
  ELSE IF IsTypesPkg(t, pkg) THEN [list |-> l, recurse |-> FALSE]
  ELSE IF ListHas(l, PurlString(t, pkg)) THEN [list |-> l, recurse |-> FALSE]
  ELSE [list |-> ListPut(l, PurlString(t, pkg), Component(imports, pkg, t, fmt), p),
        recurse |-> TRUE]

\* addComponent storing the component before the test for a purl already in the map
addComponent_LastWins(imports, p, t, l, isRootPkg, fmt) ==
  LET pkg == heap[p]
      key == PurlString(t, pkg)
      c == Component(imports, pkg, t, fmt)
  IN
  IF pkg.extraneous THEN [list |-> l, recurse |-> FALSE]
  ELSE IF isRootPkg THEN [list |-> l, recurse |-> TRUE]
  ELSE IF IsTypesPkg(t, pkg) THEN [list |-> l, recurse |-> FALSE]
  ELSE IF ListHas(l, key)
    THEN [list |-> [i \in 1..Len(l) |->
                      IF l[i].key = key THEN [key |-> key, component |-> c, rec |-> p]
                                        ELSE l[i]],
          recurse |-> FALSE]
  ELSE [list |-> ListPut(l, key, c, p), recurse |-> TRUE]

addComponent(imports, p, t, l, isRootPkg, fmt) ==
  LET pkg == heap[p] IN
  IF pkg.extraneous THEN [list |-> l, recurse |-> FALSE]
  ELSE IF isRootPkg THEN [list |-> l, recurse |-> TRUE]
  ELSE IF IsTypesPkg(t, pkg) THEN [list |-> l, recurse |-> FALSE]
  ELSE IF ListHas(l, PurlString(t, pkg)) THEN [list |-> l, recurse |-> FALSE]
  ELSE [list |-> ListPut(l, PurlString(t, pkg), Component(imports, pkg, t, fmt), p),
        recurse |-> TRUE]

\* the calls for pkg.dependencies without the filter on string values
DepCalls_NoFilter(p) ==
  [i \in 1..Len(heap[p].dependencies) |->
     [pkg |-> heap[p].dependencies[i].ref, isRootPkg |-> FALSE]]

\* the calls addComponent makes for pkg.dependencies: object values only, in key order
DepCalls(p) ==
  LET objs == SelectSeq(heap[p].dependencies, LAMBDA d : ~d.isString)
  IN [i \in 1..Len(objs) |-> [pkg |-> objs[i].ref, isRootPkg |-> FALSE]]

\* one call taken off the pending calls, going on to the dependencies of a record
\* met for the first time even when addComponent returned early
WalkStep_BelowExcluded(imports, t, fmt, w) ==
  LET f == Head(w.stack)
      r == addComponent(imports, f.pkg, t, w.list, f.isRootPkg, fmt)
      met == \E k \in 1..Len(w.visited) : w.visited[k] = f.pkg
  IN [stack |-> (IF r.recurse \/ ~met THEN DepCalls(f.pkg) ELSE <<>>) \o Tail(w.stack),
      list |-> r.list,
      visited |-> Append(w.visited, f.pkg)]

\* one addComponent call taken off the pending calls
WalkStep(imports, t, fmt, w) ==
  LET f == Head(w.stack)
      r == addComponent(imports, f.pkg, t, w.list, f.isRootPkg, fmt)
  IN [stack |-> (IF r.recurse THEN DepCalls(f.pkg) ELSE <<>>) \o Tail(w.stack),
      list |-> r.list,
      visited |-> Append(w.visited, f.pkg)]

-----------------------------------------------------------------------------
(* listComponents *)

\* the addComponent calls listComponents makes itself
FirstCalls(pkg, t) ==
  IF pkg.isArray
    THEN [i \in 1..Len(pkg.ids) |-> [pkg |-> pkg.ids[i], isRootPkg |-> FALSE]]
    ELSE <<[pkg |-> pkg.ids[1], isRootPkg |-> (t = "npm")]>>

\* Object.keys(list).map(...)
ListResult(l, fmt) ==
  IF fmt = "xml" THEN [i \in 1..Len(l) |-> [component |-> l[i].component]]
                 ELSE [i \in 1..Len(l) |-> l[i].component]

RECURSIVE RunWalk(_, _, _, _)
RunWalk(imports, t, fmt, w) ==
  IF w.stack = <<>> THEN w ELSE RunWalk(imports, t, fmt, WalkStep(imports, t, fmt, w))

listComponents(imports, pkg, t, fmt) ==
  ListResult(RunWalk(imports, t, fmt,
                     [stack |-> FirstCalls(pkg, t), list |-> <<>>, visited |-> <<>>]).list, fmt)

-----------------------------------------------------------------------------
(* buildBomString *)

\* what uuidv4() and new Date().toISOString() can deliver
UUIDs == {"11111111-1111-4111-8111-111111111111", "22222222-2222-4222-8222-222222222222"}
Times == {"2022-06-03T10:00:00.000Z", "2022-06-04T10:00:00.000Z"}

\* the context of a run: base path and package file as path segments
ContextSrc == <<"proj">>
ContextFilename == <<"package-lock.json">>

\* filename.includes(src), on path segments
PathIncludes(filename, src) ==
  \E i \in 0..(Len(filename) - Len(src)) : SubSeq(filename, i + 1, i + Len(src)) = src

addGlobalReferences(src, filename) ==
  LET packageFileMeta == IF PathIncludes(filename, src) THEN filename ELSE src \o filename
  IN << [reference |-> ("@type" :> "other" @@ "url" :> src @@ "comment" :> "Base path")],
        [reference |-> ("@type" :> "other" @@ "url" :> packageFileMeta
                        @@ "comment" :> "Package file")] >>

addMetadata(det, now) ==
  [timestamp |-> IF det THEN "2022-06-03T09:34:10.062Z" ELSE now,
   tools |-> <<[tool |-> [vendor |-> "AppThreat", name |-> "cdxgen", version |-> "selfPjson.version"]]>>,
   authors |-> <<[author |-> [name |-> "selfPjson.author", email |-> "cloud@appthreat.com"]]>>]

\* the arguments buildBomString hands to the callback, for the uuid and the
\* time the run draws; called without arguments when there are no components
buildBomString(det, pkg, t, imports, uuid, now) ==
  LET serialNum == "urn:uuid:" \o uuid
      ctxFilename == IF ~det THEN ContextFilename ELSE <<"some", "full", "path">>
      ctxImports == IF imports.present THEN imports ELSE [present |-> TRUE, keys |-> {}]
      metadata == addMetadata(det, now)
      xmlComponents == listComponents(ctxImports, pkg, t, "xml")
      bomXml == [xmlns |-> "http://cyclonedx.org/schema/bom/1.2",
                 version |-> 1,
                 externalReferences |-> addGlobalReferences(ContextSrc, ctxFilename),
                 metadata |-> metadata,
                 components |-> xmlComponents]
               @@ (IF ~det THEN "serialNumber" :> serialNum ELSE <<>>)
      jsonTpl == [bomFormat |-> "CycloneDX",
                  specVersion |-> "1.2",
                  serialNumber |-> serialNum,
                  version |-> 1,
                  metadata |-> metadata,
                  components |-> listComponents(ctxImports, pkg, t, "json")]
  IN IF xmlComponents # <<>>
       THEN [hasBom |-> TRUE, bomString |-> bomXml, bomJson |-> jsonTpl]
       ELSE [hasBom |-> FALSE]

NoBom == [hasBom |-> FALSE]

-----------------------------------------------------------------------------
(* Inputs *)

Name_a == <<"a">>
Name_b == <<"b">>
Name_c == <<"c">>
Name_n == <<"n">>
Name_x == <<"x">>
Name_types == <<"t","y","p","e","s">>
Name_at_b_c == <<"@","b","/","c">>
Name_at_types == <<"@","t","y","p","e","s">>
Name_at_types_n == <<"@","t","y","p","e","s","/","n">>
Name_at_typesx_n == <<"@","t","y","p","e","s","x","/","n">>

\* digests: a SHA-1 in hex (lower and upper case) and in base64, a SHA-512 in base64
Sha1Bytes == [i \in 1..20 |-> (i * 37) % 256]
Sha512Bytes == [i \in 1..64 |-> (i * 91 + 5) % 256]
Sha1Hex == HexEncode(Sha1Bytes)
Sha1Base64 == B64Encode(Sha1Bytes)
Sha512Base64 == B64Encode(Sha512Bytes)
Sha1HexUpper ==
  [i \in 1..Len(Sha1Hex) |->
     IF \E k \in 11..16 : HexLower[k] = Sha1Hex[i]
       THEN HexUpper[(CHOOSE k \in 11..16 : HexLower[k] = Sha1Hex[i]) - 10]
       ELSE Sha1Hex[i]]
\* 32 hex characters, which are the canonical base64 text of 24 bytes as well
Md5Hex == HexEncode([i \in 1..16 |-> (i * 53 + 11) % 256])
\* neither hex of an accepted length nor canonical base64
NoDigest == <<"x","y","z","!">>

PkgA == [NoPkg EXCEPT !.name = Name_a, !.version = "1.0.0", !.description = "first a"]
PkgA2 == [NoPkg EXCEPT !.name = Name_a, !.version = "1.0.0", !.description = "second a",
                       !.homepage = "https://a.example", !.license = "MIT",
                       !.shasum = Sha1Hex]
PkgB == [NoPkg EXCEPT !.name = Name_b, !.version = "2.0.0"]
PkgX == [NoPkg EXCEPT !.name = Name_x, !.version = "1.0.0", !.extraneous = TRUE]
PkgT == [NoPkg EXCEPT !.name = Name_at_types_n, !.version = "3.0.0"]

PkgC == [NoPkg EXCEPT !.name = Name_c, !.version = "1.0.0",
                      !.repositoryUrl = "git://c.example"]

\* the records a dependency graph is drawn from, by heap id: record 2 may have the
\* purl of record 1, and every position may hold an excluded record
GraphPkgs == <<{PkgA, PkgT}, {PkgA2, PkgB, PkgX}, {PkgC, PkgT}>>

\* the attribute parts of the heaps of n records
GraphRecords(n) == {h \in [1..n -> UNION {GraphPkgs[i] : i \in 1..n}] :
                      \A i \in 1..n : h[i] \in GraphPkgs[i]}

\* the records the single-record inputs are drawn from
AttrPkgs ==
  { PkgA, PkgT, PkgX,
    [NoPkg EXCEPT !.name = Name_at_b_c, !.version = "1.0.0"],
    [NoPkg EXCEPT !.name = Name_c, !.group = Name_b, !.version = "1.0.0",
                  !.qualifiers = "type=jar"],
    [NoPkg EXCEPT !.name = Name_a, !.version = "1.0.0", !.scope = "optional"],
    [NoPkg EXCEPT !.name = Name_x, !.version = "1.0.0", !.scope = "required",
                  !.extraneous = TRUE],
    [NoPkg EXCEPT !.name = Name_at_types],
    [NoPkg EXCEPT !.name = Name_n, !.group = Name_types, !.version = "3.0.0"],
    [NoPkg EXCEPT !.name = Name_at_typesx_n, !.version = "3.0.0"],
    [NoPkg EXCEPT !.name = Name_at_types_n, !.group = Name_b, !.version = "3.0.0"],
    [NoPkg EXCEPT !.name = Name_a, !.version = "1.0.0", !.shasum = Sha1Hex,
                  !.integrity = <<[algorithm |-> "sha512", digest |-> Sha512Base64]>>,
                  !.homepage = "https://a.example", !.hasKeywords = TRUE,
                  !.keywords = <<"Web", "Framework">>],
    [NoPkg EXCEPT !.name = Name_b, !.version = "2.0.0",
                  !.integrity = <<[algorithm |-> "sha1", digest |-> Sha1Base64],
                                  [algorithm |-> "sha512", digest |-> Sha512Base64],
                                  [algorithm |-> "sha1", digest |-> Sha1Hex]>>,
                  !.bugsUrl = "https://b.example/issues",
                  !.repositoryUrl = "git://b.example", !.hasKeywords = TRUE,
                  !.keywords = <<"Web">>, !.description = "b" ],
    [NoPkg EXCEPT !.name = Name_a, !.version = "2.0.0", !.shasum = Sha1HexUpper],
    [NoPkg EXCEPT !.name = Name_b, !.version = "3.0.0",
                  !.integrity = <<[algorithm |-> "sha1", digest |-> Sha1HexUpper],
                                  [algorithm |-> "sha256", digest |-> NoDigest]>>],
    [NoPkg EXCEPT !.name = Name_n, !.version = "1.0.0", !.license = "MIT",
                  !.integrity = <<[algorithm |-> "sha384", digest |-> Md5Hex],
                                  [algorithm |-> "md5", digest |-> Md5Hex]>>],
    [NoPkg EXCEPT !.name = Name_c, !.version = "2.0.0",
                  !.integrity = <<[algorithm |-> "md5", digest |-> Md5Hex]>>] }

NoImports == [present |-> FALSE, keys |-> {}]
Imports(keys) == [present |-> TRUE, keys |-> keys]

ImportMaps ==
  { NoImports, Imports({}), Imports({Name_a}), Imports({Name_c}), Imports({Name_b}),
    Imports({<<"@","b">>}), Imports({<<"b","/","c">>}), Imports({Name_at_b_c}),
    Imports({<<"z">>}), Imports({Name_types, Name_x}) }

PTypes == {"npm", "maven"}

\* the record ids a dependency graph may use
RecIds == 1..3

\* ids of s in increasing order
RECURSIVE SortedSeq(_)
SortedSeq(s) ==
  IF s = {} THEN <<>>
  ELSE LET m == CHOOSE x \in s : \A y \in s : x <= y IN <<m>> \o SortedSeq(s \ {m})

\* the record a string-valued dependency stands for: the last one of the heap
Marked(pkgs) == Len(pkgs)

\* the heap with records pkgs[i] and the object-valued edges E, plus a string-valued
\* dependency in the records in strs; a dependency's key is the package name
GraphHeap(pkgs, E, strs) ==
  [i \in DOMAIN pkgs |->
     [pkgs[i] EXCEPT !.dependencies =
        (IF i \in strs
           THEN <<DepStr(Str(pkgs[Marked(pkgs)].name), pkgs[Marked(pkgs)].version,
                         Marked(pkgs))>>
           ELSE <<>>)
        \o [k \in 1..Cardinality({e \in E : e[1] = i}) |->
              LET j == SortedSeq({e[2] : e \in {e \in E : e[1] = i}})[k]
              IN DepObj(Str(pkgs[j].name), j)]]]

\* the ids reachable from the ids in from along the edges E
RECURSIVE Reach(_, _)
Reach(from, E) ==
  LET more == from \cup {e[2] : e \in {e \in E : e[1] \in from}}
  IN IF more = from THEN from ELSE Reach(more, E)

\* single root records and lists of records with their dependency graphs: at most
\* MaxEdges object-valued edges, distinct dependency keys in one record, and every
\* record of the heap reachable from the input through dependency entries; the
\* graphs with a string-valued entry are those of a single input record
GraphInputs(maxEdges) ==
  { g \in [heap : UNION {GraphRecords(n) : n \in RecIds},
            edges : {E \in SUBSET (RecIds \X RecIds) : Cardinality(E) <= maxEdges},
            strs : {{}, {1}},
            pkgInfo : [isArray : BOOLEAN, ids : {<<1>>, <<1, 2>>}]] :
      /\ \A e \in g.edges : e[1] \in DOMAIN g.heap /\ e[2] \in DOMAIN g.heap
      /\ \A i \in 1..Len(g.pkgInfo.ids) : g.pkgInfo.ids[i] \in DOMAIN g.heap
      /\ ~g.pkgInfo.isArray => Len(g.pkgInfo.ids) = 1
      /\ \A e1, e2 \in g.edges :
           (e1[1] = e2[1] /\ e1[2] # e2[2]) => g.heap[e1[2]].name # g.heap[e2[2]].name
      /\ \A e \in g.edges :
           e[1] \in g.strs => g.heap[e[2]].name # g.heap[Marked(g.heap)].name
      /\ g.strs # {} => Len(g.pkgInfo.ids) = 1
      /\ Reach({g.pkgInfo.ids[i] : i \in 1..Len(g.pkgInfo.ids)},
               g.edges \cup {<<i, Marked(g.heap)>> : i \in g.strs}) = DOMAIN g.heap }

-----------------------------------------------------------------------------
(* The state machine: a caller invokes the exported listComponents (its    *)
(* walk taken one addComponent call at a time) or buildBomString.          *)

\* edges of the graphs handed to buildBomString
MaxBomEdges == 1

InitWalkState ==
  /\ pc = "idle"
  /\ stack = <<>>
  /\ list = <<>>
  /\ visited = <<>>
  /\ components = <<>>
  /\ runs = 0
  /\ bom = NoBom
  /\ prevBom = NoBom

\* listComponents on a dependency graph
InitListGraph ==
  /\ entry = "listComponents"
  /\ \E g \in GraphInputs(MaxEdges) :
       /\ heap = GraphHeap(g.heap, g.edges, g.strs)
       /\ pkgInfo = g.pkgInfo
  /\ ptype \in PTypes
  /\ allImports = NoImports
  /\ format \in {"xml", "json"}
  /\ deterministicForTests = FALSE

\* listComponents on a list of one record, with an import map
InitListAttr ==
  /\ entry = "listComponents"
  /\ \E pkg \in AttrPkgs : heap = <<pkg>>
  /\ pkgInfo \in [isArray : BOOLEAN, ids : {<<1>>}]
  /\ ptype \in PTypes
  /\ allImports \in ImportMaps
  /\ format \in {"xml", "json"}
  /\ deterministicForTests = FALSE

\* buildBomString on a small dependency graph
InitBomGraph ==
  /\ entry = "buildBomString"
  /\ \E g \in GraphInputs(MaxBomEdges) :
       /\ heap = GraphHeap(g.heap, g.edges, g.strs)
       /\ pkgInfo = g.pkgInfo
  /\ ptype \in PTypes
  /\ allImports = NoImports
  /\ format = "xml"
  /\ deterministicForTests \in BOOLEAN

\* buildBomString on a list of one record, with an import map
InitBomAttr ==
  /\ entry = "buildBomString"
  /\ \E pkg \in AttrPkgs : heap = <<pkg>>
  /\ pkgInfo \in [isArray : BOOLEAN, ids : {<<1>>}]
  /\ ptype \in PTypes
  /\ allImports \in ImportMaps
  /\ format = "xml"
  /\ deterministicForTests \in BOOLEAN

Init ==
  /\ InitWalkState
  /\ DriverOff
  /\ (InitListGraph \/ InitListAttr \/ InitBomGraph \/ InitBomAttr)

\* listComponents is entered: the map is empty, the first calls are pending
ListComponentsCall ==
  /\ entry = "listComponents"
  /\ pc = "idle"
  /\ pc' = "walk"
  /\ stack' = FirstCalls(pkgInfo, ptype)
  /\ list' = <<>>
  /\ visited' = <<>>
  /\ UNCHANGED <<inputVars, components, runs, bom, prevBom, drvVars>>

\* one addComponent call
AddComponentCall ==
  /\ pc = "walk"
  /\ stack # <<>>
  /\ LET w == WalkStep(allImports, ptype, format,
                       [stack |-> stack, list |-> list, visited |-> visited])
     IN /\ stack' = w.stack
        /\ list' = w.list
        /\ visited' = w.visited
  /\ UNCHANGED <<inputVars, pc, components, runs, bom, prevBom, drvVars>>

\* listComponents returns the components of the map
ListComponentsReturn ==
  /\ pc = "walk"
  /\ stack = <<>>
  /\ pc' = "done"
  /\ components' = ListResult(list, format)
  /\ UNCHANGED <<inputVars, stack, list, visited, runs, bom, prevBom, drvVars>>

\* one run of buildBomString, up to the callback
BuildBomString ==
  /\ entry = "buildBomString"
  /\ pc = "idle"
  /\ runs < MaxRuns
  /\ \E uuid \in UUIDs, now \in Times :
       bom' = buildBomString(deterministicForTests, pkgInfo, ptype, allImports, uuid, now)
  /\ prevBom' = bom
  /\ runs' = runs + 1
  /\ UNCHANGED <<inputVars, pc, stack, list, visited, components, drvVars>>

Next ==
  \/ ListComponentsCall
  \/ AddComponentCall
  \/ ListComponentsReturn
  \/ BuildBomString

Spec == Init /\ [][Next]_vars

\* listComponents alone
InitWalk == InitWalkState /\ DriverOff /\ (InitListGraph \/ InitListAttr)

NextWalk ==
  \/ ListComponentsCall
  \/ AddComponentCall
  \/ ListComponentsReturn

WalkSpec == InitWalk /\ [][NextWalk]_vars

-----------------------------------------------------------------------------
(* Views of the output used by the properties *)

\* a component of either shape as plain values
NormXml(c) ==
  [group |-> c.group, name |-> c.name, version |-> c.version, purl |-> c.purl,
   scope |-> IF "scope" \in DOMAIN c THEN c.scope ELSE "",
   type |-> c["@type"],
   licenses |-> IF "licenses" \in DOMAIN c
                  THEN [i \in 1..Len(c.licenses) |-> c.licenses[i].license.id]
                  ELSE <<>>,
   hashes |-> IF "hashes" \in DOMAIN c
                THEN [i \in 1..Len(c.hashes) |->
                        <<c.hashes[i].hash["@alg"], c.hashes[i].hash["#text"]>>]
                ELSE <<>>,
   refs |-> IF "externalReferences" \in DOMAIN c
              THEN [i \in 1..Len(c.externalReferences) |->
                      <<c.externalReferences[i].reference["@type"],
                        c.externalReferences[i].reference["url"]>>]
              ELSE <<>>]

NormJson(c) ==
  [group |-> c.group, name |-> c.name, version |-> c.version, purl |-> c.purl,
   scope |-> IF "scope" \in DOMAIN c THEN c.scope ELSE "",
   type |-> c.type,
   licenses |-> IF "licenses" \in DOMAIN c
                  THEN [i \in 1..Len(c.licenses) |-> c.licenses[i].license.id]
                  ELSE <<>>,
   hashes |-> IF "hashes" \in DOMAIN c
                THEN [i \in 1..Len(c.hashes) |-> <<c.hashes[i].alg, c.hashes[i].content>>]
                ELSE <<>>,
   refs |-> IF "externalReferences" \in DOMAIN c
              THEN [i \in 1..Len(c.externalReferences) |->
                      <<c.externalReferences[i].type, c.externalReferences[i].url>>]
              ELSE <<>>]

NormList(cs, fmt) ==
  IF fmt = "xml" THEN [i \in 1..Len(cs) |-> NormXml(cs[i].component)]
                 ELSE [i \in 1..Len(cs) |-> NormJson(cs[i])]

\* the component lists delivered in this state, as plain values
ListOutput == IF pc = "done" THEN NormList(components, format) ELSE <<>>
BomXmlOutput == IF bom.hasBom THEN NormList(bom.bomString.components, "xml") ELSE <<>>
BomJsonOutput == IF bom.hasBom THEN NormList(bom.bomJson.components, "json") ELSE <<>>
Outputs == <<ListOutput, BomXmlOutput, BomJsonOutput>>

\* the import map the components were built with
EffectiveImports ==
  IF entry = "buildBomString" /\ ~allImports.present THEN Imports({}) ELSE allImports

NoDuplicates(s) == \A i, j \in 1..Len(s) : s[i] = s[j] => i = j

-----------------------------------------------------------------------------
(* Properties *)

\* the purls of a component list
Purls(out) == [i \in 1..Len(out) |-> out[i].purl]

\* the object-valued dependency edges of the heap
HeapEdges ==
  {e \in (DOMAIN heap) \X (DOMAIN heap) :
     \E i \in 1..Len(heap[e[1]].dependencies) :
       ~heap[e[1]].dependencies[i].isString /\ heap[e[1]].dependencies[i].ref = e[2]}

Targets(i) == {e[2] : e \in {e \in HeapEdges : e[1] = i}}

\* number of addComponent calls made on record i
Visits(i) == Cardinality({k \in 1..Len(visited) : visited[k] = i})

\* C1: the list listComponents returns (directly, and in both encodings of
\* buildBomString) never holds two components with the same purl.
C1_NoDuplicatePurl ==
  \A k \in 1..3 : NoDuplicates(Purls(Outputs[k]))

\* C1 witness: a finished walk that met an included record twice, or met two
\* records with the same purl
C1_Witness ==
  /\ pc = "done"
  /\ Len(components) >= 2
  /\ \E i, j \in 1..Len(visited) :
       /\ i < j
       /\ PurlString(ptype, heap[visited[i]]) = PurlString(ptype, heap[visited[j]])
       /\ \E k \in 1..Len(list) : list[k].rec = visited[i]

\* the most object-valued dependencies any record has
MaxObjDeps ==
  LET n(i) == Cardinality({k \in 1..Len(heap[i].dependencies) :
                             ~heap[i].dependencies[k].isString})
  IN IF DOMAIN heap = {} THEN 0
     ELSE n(CHOOSE i \in DOMAIN heap : \A j \in DOMAIN heap : n(j) <= n(i))

\* what is left of the walk: the pending calls, and for every purl not yet in the
\* map the calls its record can still add
WalkMeasure ==
  Len(stack)
  + MaxObjDeps * Cardinality({PurlString(ptype, heap[i]) : i \in DOMAIN heap}
                             \ {list[k].key : k \in 1..Len(list)})

\* C2: listComponents terminates, also on object-valued cycles: every addComponent
\* call below the root either returns at once (map unchanged, no new call) or adds
\* a purl that was not in the map, so each call strictly decreases WalkMeasure, a
\* natural number, and the walk stays at the point where listComponents returns once
\* no call is pending.
C2_StepReturnsOrAddsNewPurl ==
  (pc = "walk" /\ stack # <<>> /\ ~Head(stack).isRootPkg)
    => /\ \/ list' = list /\ stack' = Tail(stack)
          \/ /\ Len(list') = Len(list) + 1
             /\ SubSeq(list', 1, Len(list)) = list
             /\ ~ListHas(list, list'[Len(list')].key)
       /\ WalkMeasure' < WalkMeasure
       /\ WalkMeasure' >= 0
       /\ pc' = "walk"

C2_Terminates == [][C2_StepReturnsOrAddsNewPurl]_vars

\* C2 witness: a finished walk over a graph with an object-valued cycle (a
\* self-reference or a mutual reference), which came back to a record of the cycle
C2_Witness ==
  /\ pc = "done"
  /\ \E i \in DOMAIN heap :
       /\ i \in Reach(Targets(i), HeapEdges)
       /\ Visits(i) >= 2
       /\ \E k \in 1..Len(list) : list[k].rec = i


\* a record under the @types namespace: group "types" after scoped-name parsing, or
\* a name starting with "@types"
UnderTypes(pkg) ==
  \/ PkgGroup(pkg) = Name_types
  \/ StartsWith(PkgName(pkg), Name_at_types)

\* the records whose purl the output has to hold: those reached from the input
\* through object-valued edges on a path with no extraneous and no npm @types
\* record (the root record of a single-record npm input only when an edge leads
\* back to it)
Excluded(i) == heap[i].extraneous \/ (ptype = "npm" /\ UnderTypes(heap[i]))

RECURSIVE ReachIncluded(_)
ReachIncluded(from) ==
  LET more == from \cup {i \in UNION {Targets(j) : j \in from} : ~Excluded(i)}
  IN IF more = from THEN from ELSE ReachIncluded(more)

RequiredRecords ==
  LET first == FirstCalls(pkgInfo, ptype)
      root == {first[k].pkg : k \in {k \in 1..Len(first) : first[k].isRootPkg}}
      start == {first[k].pkg : k \in {k \in 1..Len(first) : ~first[k].isRootPkg}}
  IN ReachIncluded({i \in start : ~Excluded(i)}
                   \cup {i \in UNION {Targets(r) : r \in {r \in root : ~Excluded(r)}} :
                           ~Excluded(i)})

\* C3 (as claimed): when listComponents has returned, every purl of a record
\* reachable through object-valued edges, not passing through an excluded record,
\* is the purl of exactly one component.
C3_EveryReachablePurlOnce ==
  pc = "done" =>
    \A i \in RequiredRecords :
      Cardinality({k \in 1..Len(ListOutput) :
                     ListOutput[k].purl = PurlString(ptype, heap[i])}) = 1

\* C4: no component is built from a record marked extraneous, in the map at any
\* point of the walk and in every delivered list; the delivered list is the map.
C4_ExtraneousNeverComponent ==
  /\ \A k \in 1..Len(list) : ~heap[list[k].rec].extraneous
  /\ pc = "done" => Purls(ListOutput) = [k \in 1..Len(list) |-> list[k].key]
  /\ \A o \in 1..3 : \A k \in 1..Len(Outputs[o]) :
       \E i \in DOMAIN heap :
         ~heap[i].extraneous /\ PurlString(ptype, heap[i]) = Outputs[o][k].purl

\* C4 witness: a finished walk that met an extraneous record as a dependency of a
\* record that became a component
C4_Witness ==
  /\ pc = "done"
  /\ \E e \in HeapEdges :
       /\ heap[e[2]].extraneous
       /\ Visits(e[2]) >= 1
       /\ \E k \in 1..Len(list) : list[k].rec = e[1]

ImportKeys == {Str(k) : k \in EffectiveImports.keys}

\* C6 (as claimed): with a non-empty import map a component is "required" exactly
\* when its name, "group/name" or "@group/name" is a key, and "optional" otherwise.
C6_RequiredIffNameIsKey ==
  (EffectiveImports.present /\ ImportKeys # {}) =>
    \A o \in 1..3 : \A k \in 1..Len(Outputs[o]) :
      LET c == Outputs[o][k] IN
      c.scope = IF \/ c.name \in ImportKeys
                   \/ (c.group \o "/" \o c.name) \in ImportKeys
                   \/ ("@" \o c.group \o "/" \o c.name) \in ImportKeys
                  THEN "required" ELSE "optional"

\* C6 (amended): with a non-empty import map a component is "required" exactly
\* when its name, "group/name", "@group/name", its group or "@group" is a key, and
\* "optional" otherwise.
C6_RequiredIffNameOrGroupIsKey ==
  (EffectiveImports.present /\ ImportKeys # {}) =>
    \A o \in 1..3 : \A k \in 1..Len(Outputs[o]) :
      LET c == Outputs[o][k] IN
      c.scope = IF \/ c.name \in ImportKeys
                   \/ (c.group \o "/" \o c.name) \in ImportKeys
                   \/ ("@" \o c.group \o "/" \o c.name) \in ImportKeys
                   \/ c.group \in ImportKeys
                   \/ ("@" \o c.group) \in ImportKeys
                  THEN "required" ELSE "optional"

\* C6 witness: a delivered component that is "required" through its group alone
C6_Witness ==
  /\ EffectiveImports.present
  /\ \E o \in 1..3 : \E k \in 1..Len(Outputs[o]) :
       LET c == Outputs[o][k] IN
       /\ c.scope = "required"
       /\ c.name \notin ImportKeys
       /\ (c.group \in ImportKeys \/ ("@" \o c.group) \in ImportKeys)

NoImportInformation == ~EffectiveImports.present \/ EffectiveImports.keys = {}

C8_DeterministicRunsIdentical ==
  (deterministicForTests /\ runs >= 2) => bom = prevBom

\* C9: in one run the XML-shaped and the JSON-shaped component lists hold the same
\* purls in the same order, agreeing on group, name, version, scope, type, hashes
\* and external references, and both encodings carry the same metadata.
C9_EncodingsAgree ==
  bom.hasBom =>
    /\ BomXmlOutput = BomJsonOutput
    /\ bom.bomString.metadata = bom.bomJson.metadata

\* C9 witness: a run that delivered a component with hashes, external references
\* and a scope
C9_Witness ==
  /\ bom.hasBom
  /\ \E k \in 1..Len(BomJsonOutput) :
       /\ BomJsonOutput[k].hashes # <<>>
       /\ BomJsonOutput[k].refs # <<>>
       /\ BomJsonOutput[k].scope # ""

\* C10 (as claimed): given a single root record, the root record itself is never
\* the record a component is built from.
C10_RootNeverComponent ==
  ~pkgInfo.isArray => \A k \in 1..Len(list) : list[k].rec # pkgInfo.ids[1]

\* C10, npm only: the root record of an npm input is never a component
C10_NpmRootNeverComponent ==
  (~pkgInfo.isArray /\ ptype = "npm") => \A k \in 1..Len(list) : list[k].rec # pkgInfo.ids[1]

\* the addComponent calls that reach the map: not the call on the root record of a
\* single-record npm input, and not a call on an excluded record
MapCalls ==
  {k \in 1..Len(visited) :
     /\ ~(k = 1 /\ ~pkgInfo.isArray /\ ptype = "npm")
     /\ ~Excluded(visited[k])}

\* the first call that reaches the map with the purl key (0 if there is none)
FirstCall(key) ==
  LET ks == {k \in MapCalls : PurlString(ptype, heap[visited[k]]) = key}
  IN IF ks = {} THEN 0 ELSE CHOOSE k \in ks : \A m \in ks : k <= m

\* C11: at every point of the walk each entry of the map is the component of the
\* record that was met first with that purl (description, hashes, licences and
\* external references included), whatever records with that purl were met later;
\* the entries stand in the order of those first encounters, and listComponents
\* returns them in that order.
C11_FirstRecordWins ==
  /\ \A i \in 1..Len(list) :
       LET k == FirstCall(list[i].key) IN
       /\ k > 0
       /\ list[i].rec = visited[k]
       /\ list[i].component = Component(allImports, heap[visited[k]], ptype, format)
       /\ \A j \in 1..(i - 1) : FirstCall(list[j].key) < k
  /\ (entry = "listComponents" /\ pc = "done") => components = ListResult(list, format)

\* C11 witness: a finished walk that met two different records with the same purl
\* but different hashes, licences, description and external references, and
\* returned the component of the first one
C11_Witness ==
  /\ pc = "done"
  /\ \E i, j \in MapCalls :
       /\ i < j
       /\ visited[i] # visited[j]
       /\ PurlString(ptype, heap[visited[i]]) = PurlString(ptype, heap[visited[j]])
       /\ processHashes(heap[visited[i]], format) # processHashes(heap[visited[j]], format)
       /\ getLicenses(heap[visited[i]], format) # getLicenses(heap[visited[j]], format)
       /\ heap[visited[i]].description # heap[visited[j]].description
       /\ addExternalReferences(heap[visited[i]], format)
            # addExternalReferences(heap[visited[j]], format)
       /\ \E k \in 1..Len(components) :
            components[k] = ListResult(<<[component |->
                               Component(allImports, heap[visited[i]], ptype, format)]>>,
                               format)[1]

\* the records met as object values: the records listComponents is handed, and the
\* records reachable from them along object-valued dependency entries
ObjectReached ==
  LET first == FirstCalls(pkgInfo, ptype)
  IN Reach({first[k].pkg : k \in 1..Len(first)}, HeapEdges)

\* number of addComponent calls listComponents itself makes on record i
FirstVisits(i) ==
  LET first == FirstCalls(pkgInfo, ptype)
  IN Cardinality({k \in 1..Len(first) : first[k].pkg = i})

\* the string-valued dependency entries of the heap, as (holder, entry) pairs
StringEntries ==
  {e \in (DOMAIN heap) \X (1..1) :
     Len(heap[e[1]].dependencies) >= 1 /\ heap[e[1]].dependencies[e[2]].isString}

\* C12: addComponent is called on a record only as often as listComponents hands
\* it over or an object-valued dependency entry of a walked record leads to it,
\* so a string-valued entry never causes a call; every component is built from a
\* record met as an object value, and every purl delivered is the purl of such a
\* record.
C12_StringEntryNeverWalked ==
  /\ \A i \in DOMAIN heap :
       Visits(i) <= FirstVisits(i)
                    + Cardinality({k \in 1..Len(visited) : <<visited[k], i>> \in HeapEdges})
  /\ \A k \in 1..Len(visited) : visited[k] \in ObjectReached
  /\ \A k \in 1..Len(list) : list[k].rec \in ObjectReached
  /\ \A n \in 1..3 : \A k \in 1..Len(Outputs[n]) :
       \E i \in ObjectReached : Outputs[n][k].purl = PurlString(ptype, heap[i])

\* C12 witness: a finished walk that added the record holding a string-valued
\* entry, while the package the entry stands for was met nowhere as an object
\* value and has no component
C12_Witness ==
  /\ pc = "done"
  /\ \E e \in StringEntries :
       LET m == heap[e[1]].dependencies[e[2]].ref IN
       /\ \E k \in 1..Len(list) : list[k].rec = e[1]
       /\ m \notin ObjectReached
       /\ \A k \in 1..Len(ListOutput) : ListOutput[k].purl # PurlString(ptype, heap[m])

\* C12 witness of the other case: the package a string-valued entry stands for is
\* also met as an object value, and has its component
C12_WitnessMetAsObject ==
  /\ pc = "done"
  /\ \E e \in StringEntries :
       LET m == heap[e[1]].dependencies[e[2]].ref IN
       /\ m # e[1]
       /\ m \in ObjectReached
       /\ \E k \in 1..Len(list) : list[k].rec = m

\* the components delivered in this state, each with the record it was built from:
\* the entries of listComponents' map, and the components of a BOM built from a
\* single record
Delivered ==
  {[c |-> (IF format = "xml" THEN NormXml(list[k].component)
                             ELSE NormJson(list[k].component)),
    pkg |-> heap[list[k].rec]] : k \in 1..Len(list)}
  \cup (IF Len(heap) = 1
          THEN {[c |-> BomXmlOutput[k], pkg |-> heap[1]] : k \in 1..Len(BomXmlOutput)}
               \cup {[c |-> BomJsonOutput[k], pkg |-> heap[1]] : k \in 1..Len(BomJsonOutput)}
          ELSE {})

\* the algorithms processHashes looks for, in its order
IntegrityOrder == <<<<"sha512", "SHA-512">>, <<"sha384", "SHA-384">>,
                    <<"sha256", "SHA-256">>, <<"sha1", "SHA-1">>>>

\* the digests an integrity string gives for algorithm a, in the order of the string
DigestsOf(integrity, a) ==
  LET es == SelectSeq(integrity, LAMBDA e : e.algorithm = a)
  IN [i \in 1..Len(es) |-> es[i].digest]

\* C13: a component of a record with _shasum has exactly one hash, SHA-1 with the
\* _shasum value, whatever its integrity string says; a component of a record
\* without _shasum has one hash for each of sha512, sha384, sha256, sha1 the
\* integrity string names, in that order, made from the first digest the string
\* gives for that algorithm.
C13_HashPrecedence ==
  \A d \in Delivered :
    IF d.pkg.shasum # <<>>
      THEN d.c.hashes = <<<<"SHA-1", d.pkg.shasum>>>>
      ELSE LET found == SelectSeq(IntegrityOrder,
                                  LAMBDA a : DigestsOf(d.pkg.integrity, a[1]) # <<>>)
           IN /\ Len(d.c.hashes) = Len(found)
              /\ \A i \in 1..Len(found) :
                   /\ d.c.hashes[i][1] = found[i][2]
                   /\ d.c.hashes[i][2] = HashValue(DigestsOf(d.pkg.integrity, found[i][1])[1])

\* C13 witness: a component of a record with both _shasum and an integrity string
C13_Witness ==
  \E d \in Delivered :
    d.pkg.shasum # <<>> /\ d.pkg.integrity # <<>> /\ Len(d.c.hashes) = 1

\* C13 witness of the other case: a component of a record without _shasum whose
\* integrity string gives sha1 (twice, with different digests) before sha512
C13_WitnessIntegrityOrder ==
  \E d \in Delivered :
    /\ d.pkg.shasum = <<>>
    /\ Len(DigestsOf(d.pkg.integrity, "sha1")) >= 2
    /\ DigestsOf(d.pkg.integrity, "sha1")[1] # DigestsOf(d.pkg.integrity, "sha1")[2]
    /\ d.pkg.integrity[1].algorithm = "sha1"
    /\ Len(d.c.hashes) = 2

\* a non-empty string of the characters 0-9 and a-f
IsLowerHex(s) == Len(s) > 0 /\ \A i \in 1..Len(s) : \E k \in 1..16 : HexLower[k] = s[i]

\* C14 (as claimed): every hash value of every delivered component is a lowercase
\* hexadecimal string, whether it came from _shasum, from an integrity digest in
\* hex of either letter case, from a base64 digest, or from a digest that is
\* neither.
C14_EveryHashLowercaseHex ==
  \A d \in Delivered : \A i \in 1..Len(d.c.hashes) : IsLowerHex(d.c.hashes[i][2])

\* C14, the part that holds: the hash made from an integrity digest that is the
\* canonical base64 text of some bytes, and is not itself hex of an accepted
\* length, is lowercase hexadecimal
C14_Base64DigestsLowercaseHex ==
  \A d \in Delivered :
    d.pkg.shasum = <<>> =>
      \A i \in 1..Len(d.c.hashes) :
        \A e \in {d.pkg.integrity[k] : k \in 1..Len(d.pkg.integrity)} :
          (/\ ~HASH_PATTERN(e.digest)
           /\ B64Encode(B64Decode(e.digest)) = e.digest
           /\ d.c.hashes[i][2] = HashValue(e.digest)) => IsLowerHex(d.c.hashes[i][2])

\* byte strings whose base64 text is used as a digest, with that text
KnownDigests == {[bytes |-> Sha1Bytes, base64 |-> Sha1Base64],
                 [bytes |-> Sha512Bytes, base64 |-> Sha512Base64]}

\* the hash values of a component made from the digest dg of its integrity string
ValuesFrom(d, dg) ==
  {d.c.hashes[i][2] : i \in {i \in 1..Len(d.c.hashes) :
     \E a \in {IntegrityOrder[k] : k \in 1..4} :
       /\ d.c.hashes[i][1] = a[2]
       /\ DigestsOf(d.pkg.integrity, a[1]) # <<>>
       /\ DigestsOf(d.pkg.integrity, a[1])[1] = dg}}

\* C15: the hash made from a digest that matches the hex pattern is that digest,
\* unchanged, also when the digest is canonical base64 text as well; the hash made
\* from the base64 text of a byte string, when that text does not match the hex
\* pattern, is the lowercase hex text of the same bytes.
C15_Base64ToHexAndHexUnchanged ==
  \A d \in Delivered :
    d.pkg.shasum = <<>> =>
      \A k \in 1..Len(d.pkg.integrity) :
        LET dg == d.pkg.integrity[k].digest IN
        \A v \in ValuesFrom(d, dg) :
          /\ HASH_PATTERN(dg) => v = dg
          /\ \A b \in KnownDigests :
               (dg = b.base64 /\ ~HASH_PATTERN(dg)) => v = HexEncode(b.bytes)

\* C15 witness: a component whose hash was made from a base64 digest and is the
\* hex text of the digest's bytes
C15_Witness ==
  \E d \in Delivered :
    /\ d.pkg.shasum = <<>>
    /\ \E b \in KnownDigests :
         /\ ~HASH_PATTERN(b.base64)
         /\ HexEncode(b.bytes) \in ValuesFrom(d, b.base64)

\* C15 witness of the other case: a component whose hash was made from a digest
\* that is hex of an accepted length and canonical base64 text at once, and is
\* that digest unchanged
C15_WitnessHexAndBase64 ==
  \E d \in Delivered :
    /\ d.pkg.shasum = <<>>
    /\ \E k \in 1..Len(d.pkg.integrity) :
         LET dg == d.pkg.integrity[k].digest IN
         /\ HASH_PATTERN(dg)
         /\ B64Encode(B64Decode(dg)) = dg
         /\ HexEncode(B64Decode(dg)) # dg
         /\ dg \in ValuesFrom(d, dg)

\* the component objects as built, in the four places that hold them: the map,
\* the list listComponents returned, and the two component lists of the BOM
RawComponents ==
  <<[k \in 1..Len(list) |-> list[k].component],
    IF pc = "done"
      THEN [k \in 1..Len(components) |->
              IF format = "xml" THEN components[k].component ELSE components[k]]
      ELSE <<>>,
    IF bom.hasBom
      THEN [k \in 1..Len(bom.bomString.components) |->
              bom.bomString.components[k].component]
      ELSE <<>>,
    IF bom.hasBom THEN bom.bomJson.components ELSE <<>>>>

\* C16: a component has a hashes field only if the field holds at least one hash,
\* and an externalReferences field only if the field holds at least one
\* reference, in the XML shape and in the JSON shape.
C16_NoEmptyHashesOrReferences ==
  \A n \in 1..4 : \A k \in 1..Len(RawComponents[n]) :
    LET c == RawComponents[n][k] IN
    /\ "hashes" \in DOMAIN c => c.hashes # <<>>
    /\ "externalReferences" \in DOMAIN c => c.externalReferences # <<>>

\* C16 witness: listComponents returned a component without either field for a
\* record that has an integrity string (of no algorithm processHashes reads) and
\* no homepage, issue-tracker or repository link
C16_Witness ==
  /\ pc = "done"
  /\ \E k \in 1..Len(list) :
       /\ heap[list[k].rec].integrity # <<>>
       /\ "hashes" \notin DOMAIN RawComponents[2][k]
       /\ "externalReferences" \notin DOMAIN RawComponents[2][k]

-----------------------------------------------------------------------------
-----------------------------------------------------------------------------
(* The drivers: createBom, createXBom and the builders they dispatch to.   *)
(* A call is followed through its steps; what it does (path access check,  *)
(* process exit, manifest discovery, subprocess, parsing, temporary        *)
(* directory, callback) is recorded in events. The file system is what the *)
(* path holds: the manifests found under it, by name.                      *)

MaxPoms == 2       \* pom.xml files found under the path

\* one thing a createBom call did
Ev(kind, what) ==
  [kind |-> kind, what |-> what, timeout |-> FALSE, outcome |-> "", pom |-> 0,
   bomData |-> "", bomJsonData |-> "", pkgs |-> <<>>]

Discover(what) == Ev("discover", what)
Parse(what) == Ev("parse", what)

\* what a subprocess does when left alone
Outcomes == {"exit0", "exit1", "exit2", "hang"}

\* the configured timeout in milliseconds (CDXGEN_TIMEOUT_MS, or ten minutes)
TIMEOUT_MS == 600000

\* spawnSync(cmd, args, {timeout}): a process that hangs is killed when a timeout
\* is given (status null, error set) and never returns otherwise; timeout 0
\* stands for no timeout option
spawnSync(outcome, timeout) ==
  CASE outcome = "exit0" -> [returns |-> TRUE, status |-> 0, error |-> FALSE]
    [] outcome = "exit1" -> [returns |-> TRUE, status |-> 1, error |-> FALSE]
    [] outcome = "exit2" -> [returns |-> TRUE, status |-> 2, error |-> FALSE]
    [] OTHER -> IF timeout > 0 THEN [returns |-> TRUE, status |-> -1, error |-> TRUE]
                               ELSE [returns |-> FALSE, status |-> -1, error |-> FALSE]

\* the event of a spawnSync call
Spawn(tool, outcome, timeout) ==
  [Ev("spawn", tool) EXCEPT !.timeout = (timeout > 0), !.outcome = outcome]

\* the test with its sense inverted
SpawnFailed_Inverted(result) == ~(result.status = 1 \/ result.error)

\* result.status == 1 || result.error
SpawnFailed(result) == result.status = 1 \/ result.error

\* buildBomString as the drivers see it: the callback gets the two documents when
\* there is at least one component, and nothing otherwise
BuildBom(pkgs) ==
  IF pkgs # <<>>
    THEN [Ev("callback", "buildBomString") EXCEPT
            !.bomData = "xml", !.bomJsonData = "json", !.pkgs = pkgs]
    ELSE Ev("callback", "buildBomString")

\* projectType.toLowerCase()
LowerCase(s) ==
  CASE s = "JAVA" -> "java"
    [] s = "Rust" -> "rust"
    [] OTHER -> s

\* the builder createBom's switch selects
Builder(projectType, isWar) ==
  LET t == IF isWar THEN "java" ELSE LowerCase(projectType) IN
  CASE t \in {"java", "groovy", "kotlin", "scala", "jvm"} -> "createJavaBom"
    [] t \in {"nodejs", "js", "javascript", "typescript", "ts"} -> "createNodejsBom"
    [] t \in {"python", "py"} -> "createPythonBom"
    [] t \in {"go", "golang"} -> "createGoBom"
    [] t \in {"rust", "rust-lang"} -> "createRustBom"
    [] t = "php" -> "createPHPBom"
    [] t = "ruby" -> "createRubyBom"
    [] t \in {"csharp", "netcore", "dotnet"} -> "createCsharpBom"
    [] OTHER -> "createXBom"

\* createXBom's tests, in its order: the builder and the manifests that select it
XBuilders ==
  <<[builder |-> "createNodejsBom", files |-> {"package.json", "rush.json"}],
    [builder |-> "createJavaBom", files |-> {"pom.xml", "build.gradle", "build.sbt"}],
    [builder |-> "createPythonBom",
     files |-> {"Pipfile", "poetry.lock", "requirements.txt", "setup.py"}],
    [builder |-> "createGoBom", files |-> {"go.mod", "go.sum", "Gopkg.lock"}],
    [builder |-> "createRustBom", files |-> {"Cargo.lock", "Cargo.toml"}],
    [builder |-> "createPHPBom", files |-> {"composer.json", "composer.lock"}],
    [builder |-> "createRubyBom", files |-> {"Gemfile", "Gemfile.lock"}],
    [builder |-> "createCsharpBom", files |-> {"app.csproj"}]>>

\* the index of the last test of createXBom that succeeds (0 if none does)
XMatch_Last(files) ==
  LET ks == {k \in 1..Len(XBuilders) : XBuilders[k].files \cap files # {}}
  IN IF ks = {} THEN 0 ELSE CHOOSE k \in ks : \A m \in ks : m <= k

\* the index of the first test of createXBom that succeeds (0 if none does)
XMatch(files) ==
  LET ks == {k \in 1..Len(XBuilders) : XBuilders[k].files \cap files # {}}
  IN IF ks = {} THEN 0 ELSE CHOOSE k \in ks : \A m \in ks : k <= m

\* the values of options.projectType
ProjectTypes ==
  {"", "JAVA", "jvm", "nodejs", "python", "go", "Rust", "php", "ruby", "dotnet", "cobol"}

\* the manifests found under a readable directory
FileSets ==
  { {}, {"package.json"}, {"package.json", "package-lock.json"}, {"rush.json"},
    {"pom.xml"}, {"pom.xml", "build.gradle", "build.sbt"}, {"build.gradle"},
    {"build.sbt"}, {"project/build.properties", "build.sbt.lock"},
    {"Pipfile"}, {"requirements.txt", "setup.py"}, {"go.mod"}, {"go.sum"},
    {"package.json", "node_modules"}, {"package.json", "yarn.lock"},
    {"package.json", "pnpm-lock.yaml", "package-lock.json", "yarn.lock"},
    {"rush.json", "shrinkwrap-deps.json"},
    {"rush.json", "common/temp/node_modules", "rush/pnpm-lock.yaml"},
    {"poetry.lock", "requirements.txt"}, {"setup.py"}, {"Pipfile", "Pipfile.lock"},
    {"Gopkg.lock"}, {"packages.config", "app.csproj"},
    {"Cargo.toml"}, {"Cargo.toml", "Cargo.lock"}, {"composer.json"},
    {"composer.lock"}, {"Gemfile"}, {"Gemfile", "Gemfile.lock"}, {"app.csproj"},
    {"package.json", "pom.xml"}, {"Cargo.toml", "Gemfile.lock"},
    {"Pipfile", "requirements.txt"}, {"requirements.txt", "go.mod"},
    {"package-lock.json", "node_modules", "rush.json"},
    {"node_modules", "rush.json", "yarn.lock"}, {"rush.json", "yarn.lock"},
    {"rush.json", "common/temp/node_modules", "shrinkwrap-deps.json",
     "rush/pnpm-lock.yaml"} }

\* the paths createBom is called with: a missing or unreadable path (a directory
\* or a .war file), a readable .war file, a readable directory with manifests
Paths ==
  {[readable |-> FALSE, war |-> w, files |-> {}, poms |-> 0, gradleMulti |-> FALSE] :
     w \in BOOLEAN}
  \cup {[readable |-> TRUE, war |-> TRUE, files |-> {}, poms |-> 0, gradleMulti |-> FALSE]}
  \cup {p \in [readable : {TRUE}, war : {FALSE}, files : FileSets, poms : 0..MaxPoms,
               gradleMulti : BOOLEAN] :
          /\ (p.poms > 0) = ("pom.xml" \in p.files)
          /\ p.gradleMulti => "build.gradle" \in p.files}

\* packages a tool or a parser yields: none, or one named after its source
Yields(source) == {<<>>, <<source>>}

\* s.indexOf(p), counted from 1 (0: not there)
IndexOf(s, p) ==
  LET is == {i \in 1..(Len(s) - Len(p) + 1) : SubSeq(s, i, i + Len(p) - 1) = p}
  IN IF is = {} THEN 0 ELSE CHOOSE i \in is : \A j \in is : i <= j

\* s.replace(p, r) with a string pattern: the first occurrence only
Replace(s, p, r) ==
  LET i == IndexOf(s, p) IN
  IF i = 0 THEN s ELSE SubSeq(s, 1, i - 1) \o r \o SubSeq(s, i + Len(p), Len(s))

\* the segments of a path between its slashes
RECURSIVE Split(_, _)
Split(s, seg) ==
  IF s = <<>> THEN <<seg>>
  ELSE IF Head(s) = "/" THEN <<seg>> \o Split(Tail(s), <<>>)
  ELSE Split(Tail(s), Append(seg, Head(s)))

\* path.normalize on the segments: empty and '.' segments go, '..' takes the
\* segment before it away (at the root of an absolute path it goes itself)
RECURSIVE NormSegs(_, _, _)
NormSegs(segs, kept, abs) ==
  IF segs = <<>> THEN kept
  ELSE LET g == Head(segs) IN
       IF g = <<>> \/ g = <<".">> THEN NormSegs(Tail(segs), kept, abs)
       ELSE IF g = <<".", ".">>
         THEN IF kept # <<>> /\ kept[Len(kept)] # <<".", ".">>
                THEN NormSegs(Tail(segs), SubSeq(kept, 1, Len(kept) - 1), abs)
                ELSE IF abs THEN NormSegs(Tail(segs), kept, abs)
                     ELSE NormSegs(Tail(segs), Append(kept, g), abs)
         ELSE NormSegs(Tail(segs), Append(kept, g), abs)

RECURSIVE JoinSegs(_)
JoinSegs(segs) ==
  IF segs = <<>> THEN <<>>
  ELSE IF Len(segs) = 1 THEN segs[1]
  ELSE segs[1] \o <<"/">> \o JoinSegs(Tail(segs))

\* pathLib.join(a, b): the two joined by a slash, then normalized
PathJoin(a, b) ==
  LET s == a \o <<"/">> \o b
      abs == s[1] = "/"
      body == JoinSegs(NormSegs(Split(s, <<>>), <<>>, abs))
  IN IF abs THEN <<"/">> \o body ELSE IF body = <<>> THEN <<".">> ELSE body

\* the values of the TMPDIR environment variable: not set, a directory written
\* with a slash at its end, a directory written with a doubled slash
TmpUnset == <<>>
TmpSlash == <<"/", "w", "/">>
TmpDouble == <<"/", "w", "/", "/", "t">>
TmpDirs == {TmpUnset, TmpSlash, TmpDouble}

\* os.tmpdir(): TMPDIR, or /tmp, without a slash at its end
tmpdir(e) ==
  LET d == IF e.TMPDIR = <<>> THEN <<"/", "t", "m", "p">> ELSE e.TMPDIR
  IN IF Len(d) > 1 /\ d[Len(d)] = "/" THEN SubSeq(d, 1, Len(d) - 1) ELSE d

\* fs.mkdtempSync(prefix): the prefix with six characters added
mkdtempSync(prefix) == prefix \o <<"a", "b", "c", "1", "2", "3">>

\* the temporary directory made for prefix
TempDir(e, prefix) == mkdtempSync(PathJoin(tmpdir(e), prefix))

\* the finally block: the directory is removed if its path starts with os.tmpdir()
CleanUp(e, prefix) ==
  IF TempDir(e, prefix) # <<>> /\ StartsWith(TempDir(e, prefix), tmpdir(e))
    THEN <<Ev("rmdir", Str(prefix))>>
    ELSE <<>>

WarDeps == <<"w", "a", "r", "-", "d", "e", "p", "s", "-">>
CdxMvn == <<"c", "d", "x", "m", "v", "n", "-">>

\* the values of --output: none, with .xml, with .json, with neither
OutXml == <<"b", ".", "x", "m", "l">>
OutJson == <<"b", ".", "j", "s", "o", "n">>
OutPlain == <<"b">>
OutputPaths == {<<>>, OutXml, OutJson, OutPlain}

DotXml == <<".", "x", "m", "l">>
DotJson == <<".", "j", "s", "o", "n">>

\* one thing the command line's callback did
Eff(kind, file, data) == [kind |-> kind, file |-> file, data |-> data]

\* the end of the callback: bom.submitBom(args, bomData, ...) when the server URL
\* and the API key are given
CliSubmit(a, ev) ==
  IF a.serverUrl /\ a.apiKey THEN <<Eff("submitBom", <<>>, ev.bomData)>> ELSE <<>>

\* args.output.replace(".xml", ".json")
JsonFile(output) == Replace(output, DotXml, DotJson)

\* args.output.replace(".json", ".xml")
XmlFile(output) == Replace(output, DotJson, DotXml)

\* the callback the command line hands to createBom, called with
\* (err, bomData, bomJsonData, nsMapping); options.resolveClass is not set, so
\* that nsMapping is empty
CliCallback(a, ev) ==
  (IF a.output # <<>>
     THEN IF ev.bomData = "files"
            THEN <<Eff("log", <<>>, "BOM files produced:")>>
            ELSE (IF ev.bomJsonData # ""
                    THEN <<Eff("writeFile", JsonFile(a.output), ev.bomJsonData)>>
                    ELSE <<>>)
                 \o (IF ev.bomData # ""
                       THEN <<Eff("writeFile", XmlFile(a.output), ev.bomData),
                              Eff("log", <<>>, "BOM file written to")>>
                       ELSE <<>>)
     ELSE IF ev.bomJsonData # "" THEN <<Eff("log", <<>>, ev.bomJsonData)>>
          ELSE IF ev.bomData # "" THEN <<Eff("log", <<>>, ev.bomData)>>
          ELSE <<Eff("log", <<>>, "Unable to produce BOM for")>>)
  \o CliSubmit(a, ev)

\* what the callback did over the callback events among evs
RECURSIVE Effects(_, _)
Effects(a, evs) ==
  IF evs = <<>> THEN <<>>
  ELSE (IF Head(evs).kind = "callback" THEN CliCallback(a, Head(evs)) ELSE <<>>)
       \o Effects(a, Tail(evs))

\* every callback(...) call of the step runs the command line's callback
Callbacks ==
  effects' = effects \o Effects(args, SubSeq(events', Len(events) + 1, Len(events')))

\* the values of the command line: --output, --server-url, --api-key
CliArgs == [output : OutputPaths, serverUrl : BOOLEAN, apiKey : BOOLEAN]
NoArgs == [output |-> <<>>, serverUrl |-> FALSE, apiKey |-> FALSE]

\* the paths the command line's options are varied on
CliPaths ==
  {p \in Paths :
     /\ p.readable /\ ~p.war /\ ~p.gradleMulti /\ p.poms <= 1
     /\ p.files \in {{}, {"package.json"}, {"pom.xml"},
                     {"pom.xml", "build.gradle", "build.sbt"}}}

\* the calls made: every project type on every path; TMPDIR varied where a
\* temporary directory is made; the command line's options varied in
\* auto-detect mode
Calls ==
  [options : [projectType : ProjectTypes], path : Paths,
   env : {[TMPDIR |-> TmpUnset]}, args : {NoArgs}]
  \cup {c \in [options : [projectType : {"", "JAVA"}], path : Paths,
               env : [TMPDIR : TmpDirs], args : {NoArgs}] :
          c.path.readable /\ (c.path.war \/ c.path.poms > 0)}
  \cup [options : [projectType : {""}], path : CliPaths,
        env : {[TMPDIR |-> TmpUnset]}, args : CliArgs]

\* a createBom call is about to be made
InitDriver ==
  /\ \E c \in Calls :
       /\ options = c.options
       /\ path = c.path
       /\ env = c.env
       /\ args = c.args
  /\ effects = <<>>
  /\ dpc = "createBom"
  /\ pomIdx = 0
  /\ pkgList = <<>>
  /\ events = <<>>
  /\ InitWalkState
  /\ entry = "createBom"
  /\ heap = <<>>
  /\ pkgInfo = [isArray |-> TRUE, ids |-> <<>>]
  /\ ptype = "npm"
  /\ allImports = NoImports
  /\ format = "xml"
  /\ deterministicForTests = FALSE

\* createBom: the switch on the project type
CreateBom ==
  /\ dpc = "createBom"
  /\ dpc' = Builder(options.projectType, path.war)
  /\ UNCHANGED <<asmVars, env, args, options, path, pomIdx, pkgList, events>>
  /\ Callbacks

\* createXBom: the access check, then the tests for manifests in turn, up to the
\* first that succeeds, whose builder is called
CreateXBom ==
  /\ dpc = "createXBom"
  /\ IF ~path.readable
       THEN /\ events' = events \o <<Ev("access", "failed"), Ev("exit", "1")>>
            /\ dpc' = "exited"
       ELSE LET m == XMatch(path.files)
                n == IF m = 0 THEN Len(XBuilders) ELSE m
            IN /\ events' = events \o <<Ev("access", "ok")>>
                              \o [k \in 1..n |-> Discover(XBuilders[k].builder)]
                              \o (IF m = 0 THEN <<>> ELSE <<Ev("call", XBuilders[m].builder)>>)
               /\ dpc' = IF m = 0 THEN "returned" ELSE XBuilders[m].builder
  /\ UNCHANGED <<asmVars, env, args, options, path, pomIdx, pkgList>>
  /\ Callbacks

\* createJavaBom, up to the maven loop: a .war path is extracted into a temporary
\* directory if it exists and its packages go to buildBomString; for a directory
\* the pom.xml files are looked up
CreateJavaBom ==
  /\ dpc = "createJavaBom"
  /\ IF path.war
       THEN IF ~path.readable
              THEN /\ events' = Append(events, BuildBom(<<>>))
                   /\ pkgList' = <<>>
                   /\ pomIdx' = pomIdx
                   /\ dpc' = "returned"
              ELSE \E d \in Yields("war"), thrown \in {"", "extractJarArchive", "getMvnMetadata"} :
                     /\ thrown = "extractJarArchive" => d = <<>>
                     /\ thrown = "getMvnMetadata" => d # <<>>
                     /\ pkgList' = d
                     /\ events' = events
                          \o <<Ev("mkdtemp", Str(WarDeps)), Parse("extractJarArchive")>>
                          \o CleanUp(env, WarDeps)
                          \o (IF thrown = "" THEN <<BuildBom(d)>> ELSE <<Ev("throw", thrown)>>)
                     /\ pomIdx' = pomIdx
                     /\ dpc' = IF thrown = "" THEN "returned" ELSE "threw"
       ELSE /\ events' = Append(events, Discover("pom.xml"))
            /\ pomIdx' = IF path.poms > 0 THEN 1 ELSE 0
            /\ dpc' = IF path.poms > 0 THEN "mvn" ELSE "gradle"
            /\ pkgList' = pkgList
  /\ UNCHANGED <<asmVars, env, args, options, path>>
  /\ Callbacks

\* one round of the loop over pomFiles: the cyclonedx-maven-plugin aggregate build
MvnAggregate ==
  /\ dpc = "mvn"
  /\ \E o \in Outcomes :
       LET result == spawnSync(o, TIMEOUT_MS) IN
       /\ events' = Append(events,
                           [Spawn("mvn makeAggregateBom", o, TIMEOUT_MS) EXCEPT !.pom = pomIdx])
       /\ dpc' = IF SpawnFailed(result) THEN "mvnTree"
                 ELSE IF pomIdx < path.poms THEN "mvn" ELSE "mvnBom"
       /\ pomIdx' = IF ~SpawnFailed(result) /\ pomIdx < path.poms THEN pomIdx + 1 ELSE pomIdx
  /\ UNCHANGED <<asmVars, env, args, options, path, pkgList>>
  /\ Callbacks

\* the fallback for the pom whose aggregate build failed: dependency:tree in a
\* temporary directory, manual parsing of the pom when that fails too, then
\* buildBomString and return
MvnDependencyTree ==
  /\ dpc = "mvnTree"
  /\ \E o \in Outcomes, treeFile \in BOOLEAN, thrown \in {"", "parse", "getMvnMetadata"} :
       LET result == spawnSync(o, TIMEOUT_MS)
           failed == SpawnFailed(result)
           parser == IF failed THEN "parsePom" ELSE "parseMavenTree"
       IN /\ failed => treeFile
          /\ thrown = "parse" => treeFile
          /\ \E d \in (IF thrown = "parse" THEN {<<>>}
                       ELSE IF failed THEN Yields("pom.xml")
                       ELSE IF treeFile THEN Yields("mvn-tree.txt") ELSE {<<>>}) :
               /\ pkgList' = pkgList \o d
               /\ events' = events
                    \o <<Ev("mkdtemp", Str(CdxMvn)),
                         [Spawn("mvn dependency:tree", o, TIMEOUT_MS) EXCEPT !.pom = pomIdx]>>
                    \o (IF treeFile THEN <<[Parse(parser) EXCEPT !.pom = pomIdx]>> ELSE <<>>)
                    \o CleanUp(env, CdxMvn)
                    \o (IF thrown = "" THEN <<BuildBom(pkgList \o d)>>
                        ELSE <<Ev("throw", IF thrown = "parse" THEN parser ELSE thrown)>>)
               /\ dpc' = IF thrown = "" THEN "returned" ELSE "threw"
  /\ UNCHANGED <<asmVars, env, args, options, path, pomIdx>>
  /\ Callbacks

\* after the loop, every aggregate build having succeeded: the callback gets
\* target/bom.xml (with target/bom.json if there is one) of the first pom, or the
\* lists of bom files found; createJavaBom goes on to gradle
MvnBomFiles ==
  /\ dpc = "mvnBom"
  /\ \E bomXml \in BOOLEAN, bomJson \in BOOLEAN :
       /\ ~bomXml => ~bomJson
       /\ events' = Append(events,
            [Ev("callback", "target/bom.xml") EXCEPT
               !.bomData = IF bomXml THEN "xml" ELSE "files",
               !.bomJsonData = IF ~bomXml THEN "files" ELSE IF bomJson THEN "json" ELSE ""])
  /\ dpc' = "gradle"
  /\ UNCHANGED <<asmVars, env, args, options, path, pomIdx, pkgList>>
  /\ Callbacks

\* the gradle part: 'gradle projects' and one 'dependencies' run per sub-project
\* in multi-project mode, one 'gradle dependencies' run otherwise; then
\* buildBomString, and createJavaBom goes on to sbt
GradleStage ==
  /\ dpc = "gradle"
  /\ IF "build.gradle" \in path.files
       THEN \E o1 \in Outcomes, o2 \in Outcomes, sub \in BOOLEAN :
              /\ ~path.gradleMulti => (o1 = "exit0" /\ sub)
              /\ ~sub => o2 = "exit0"
              /\ \E d \in (IF sub THEN Yields("gradle") ELSE {<<>>}) :
                   /\ pkgList' = pkgList \o d
                   /\ events' = events \o <<Discover("build.gradle")>>
                        \o (IF path.gradleMulti
                              THEN <<Spawn("gradle projects", o1, TIMEOUT_MS)>> ELSE <<>>)
                        \o (IF sub THEN <<Spawn("gradle dependencies", o2, TIMEOUT_MS)>>
                                   ELSE <<>>)
                        \o <<BuildBom(pkgList \o d)>>
       ELSE /\ events' = Append(events, Discover("build.gradle"))
            /\ pkgList' = pkgList
  /\ dpc' = "sbt"
  /\ UNCHANGED <<asmVars, env, args, options, path, pomIdx>>
  /\ Callbacks

\* sbtInvoker.invokeDependencyList(commandPrefix, basePath, TIMEOUT_MS)
invokeDependencyList(outcome, timeout) == spawnSync(outcome, timeout)

\* the sbt part: build.sbt.lock files are parsed if there are any, sbt is run
\* otherwise; then buildBomString on the sbt packages alone
SbtStage ==
  /\ dpc = "sbt"
  /\ IF {"project/build.properties", "build.sbt"} \cap path.files # {}
       THEN \E o \in Outcomes, d \in Yields("sbt") :
              LET lock == "build.sbt.lock" \in path.files IN
              /\ lock => o = "exit0"
              /\ (~lock /\ ~invokeDependencyList(o, TIMEOUT_MS).returns) => d = <<>>
              /\ events' = events \o <<Discover("sbt")>>
                   \o (IF lock THEN <<Parse("parseSbtLock")>>
                               ELSE <<Spawn("sbt dependencyList", o, TIMEOUT_MS)>>)
                   \o <<BuildBom(d)>>
       ELSE events' = Append(events, Discover("sbt"))
  /\ dpc' = "returned"
  /\ UNCHANGED <<asmVars, env, args, options, path, pomIdx, pkgList>>
  /\ Callbacks

\* createNodejsBom's dependency sources in the order of its tests, with the parser
\* each one goes to
NodeSources ==
  <<[file |-> "pnpm-lock.yaml", parser |-> "parsePnpmLock"],
    [file |-> "package-lock.json", parser |-> "parsePkgLock"],
    [file |-> "node_modules", parser |-> "readInstalled"],
    [file |-> "rush.json", parser |-> "rush"],
    [file |-> "yarn.lock", parser |-> "parseYarnLock"]>>

\* the index of the last source that is there (0 if none is)
NodeSource_Last(files) ==
  LET ks == {k \in 1..Len(NodeSources) : NodeSources[k].file \in files}
  IN IF ks = {} THEN 0 ELSE CHOOSE k \in ks : \A m \in ks : m <= k

\* the index of the first source that is there (0 if none is)
NodeSource(files) ==
  LET ks == {k \in 1..Len(NodeSources) : NodeSources[k].file \in files}
  IN IF ks = {} THEN 0 ELSE CHOOSE k \in ks : \A m \in ks : k <= m

\* the rush branch after the install: shrinkwrap-deps.json, else the rush
\* pnpm-lock.yaml, else nothing but a message
RushFinish(files, d) ==
  IF "shrinkwrap-deps.json" \in files
    THEN <<Parse("parseNodeShrinkwrap"), BuildBom(d)>>
    ELSE IF "rush/pnpm-lock.yaml" \in files
      THEN <<Parse("parsePnpmLock"), BuildBom(d)>>
      ELSE <<>>

\* createNodejsBom, up to a rush install
CreateNodejsBom ==
  /\ dpc = "createNodejsBom"
  /\ LET k == NodeSource(path.files)
         found == <<Discover("yarn.lock"), Discover("package-lock.json"),
                    Discover("pnpm-lock.yaml"), Parse("findJSImports")>>
     IN IF k = 0
          THEN /\ events' = events \o found \o <<BuildBom(<<>>)>>
               /\ dpc' = "returned"
          ELSE IF NodeSources[k].file # "rush.json"
            THEN /\ \E d \in Yields(NodeSources[k].file) :
                      events' = events \o found
                                  \o <<Parse(NodeSources[k].parser), BuildBom(d)>>
                 /\ dpc' = "returned"
            ELSE IF "common/temp/node_modules" \notin path.files
              THEN /\ events' = events \o found
                   /\ dpc' = "rushInstall"
              ELSE /\ \E d \in Yields("rush") :
                        events' = events \o found \o RushFinish(path.files, d)
                   /\ dpc' = "returned"
  /\ UNCHANGED <<asmVars, env, args, options, path, pomIdx, pkgList>>
  /\ Callbacks

\* 'rush install', then the rest of the rush branch
RushInstall ==
  /\ dpc = "rushInstall"
  /\ \E o \in Outcomes :
       LET result == spawnSync(o, 0) IN
       IF ~result.returns
         THEN /\ events' = Append(events, Spawn("rush install", o, 0))
              /\ dpc' = "hung"
         ELSE /\ \E made \in (IF o = "exit0" THEN {{}, {"rush/pnpm-lock.yaml"}} ELSE {{}}),
                    d \in Yields("rush") :
                   events' = events \o <<Spawn("rush install", o, 0)>>
                               \o RushFinish(path.files \cup made, d)
              /\ dpc' = "returned"
  /\ UNCHANGED <<asmVars, env, args, options, path, pomIdx, pkgList>>
  /\ Callbacks

\* createPythonBom, up to a pipenv install
CreatePythonBom ==
  /\ dpc = "createPythonBom"
  /\ LET found == <<Discover("Pipfile"), Discover("poetry.lock"),
                    Discover("requirements.txt"), Discover("setup.py")>>
         Build(parser, source) ==
           /\ \E d \in Yields(source) :
                events' = events \o found \o <<Parse(parser), BuildBom(d)>>
           /\ dpc' = "returned"
     IN IF "Pipfile" \in path.files
          THEN events' = events \o found /\ dpc' = "pipenvInstall"
          ELSE IF "poetry.lock" \in path.files
            THEN Build("parsePoetrylockData", "poetry.lock")
            ELSE IF "requirements.txt" \in path.files
              THEN Build("parseReqFile", "requirements.txt")
              ELSE IF "setup.py" \in path.files
                THEN Build("parseSetupPyFile", "setup.py")
                ELSE events' = events \o found /\ dpc' = "returned"
  /\ UNCHANGED <<asmVars, env, args, options, path, pomIdx, pkgList>>
  /\ Callbacks

\* 'pipenv install', then Pipfile.lock if it is there
PipenvInstall ==
  /\ dpc = "pipenvInstall"
  /\ \E o \in Outcomes :
       LET result == spawnSync(o, 0) IN
       IF ~result.returns
         THEN /\ events' = Append(events, Spawn("pipenv install", o, 0))
              /\ dpc' = "hung"
         ELSE /\ \E made \in (IF o = "exit0" THEN {{}, {"Pipfile.lock"}} ELSE {{}}),
                    d \in Yields("Pipfile.lock") :
                   /\ "Pipfile.lock" \notin (path.files \cup made) => d = <<>>
                   /\ events' = events \o <<Spawn("pipenv install", o, 0)>>
                        \o (IF "Pipfile.lock" \in (path.files \cup made)
                              THEN <<Parse("parsePiplockData"), BuildBom(d)>>
                              ELSE <<>>)
              /\ dpc' = "returned"
  /\ UNCHANGED <<asmVars, env, args, options, path, pomIdx, pkgList>>
  /\ Callbacks

\* createGoBom: go.sum alone when USE_GOSUM is set, else go.mod, else Gopkg.lock
CreateGoBom ==
  /\ dpc = "createGoBom"
  /\ \E useGosum \in BOOLEAN :
       LET sum == "go.sum" \in path.files
           rest == <<Discover("Gopkg.lock"), Discover("go.mod")>>
           sumMap == IF sum THEN <<Parse("parseGosumData")>> ELSE <<>>
       IN IF useGosum /\ sum
            THEN \E d \in Yields("go.sum") :
                   events' = events \o <<Discover("go.sum"), Parse("parseGosumData"),
                                        BuildBom(d)>>
            ELSE IF "go.mod" \in path.files
              THEN \E d \in Yields("go.mod") :
                     events' = events \o <<Discover("go.sum")>> \o sumMap \o rest
                                 \o <<Parse("parseGoModData"), BuildBom(d)>>
              ELSE IF "Gopkg.lock" \in path.files
                THEN \E d \in Yields("Gopkg.lock") :
                       events' = events \o <<Discover("go.sum")>> \o sumMap \o rest
                                   \o <<Parse("parseGopkgData"), BuildBom(d)>>
                ELSE events' = events \o <<Discover("go.sum")>> \o sumMap \o rest
                                 \o <<BuildBom(<<>>)>>
  /\ dpc' = "returned"
  /\ UNCHANGED <<asmVars, env, args, options, path, pomIdx, pkgList>>
  /\ Callbacks

\* the end of createRustBom, createPHPBom and createRubyBom: the lock files are
\* looked up again and parsed, or the callback is told there is nothing
LockFinish(lock, parser, files, d) ==
  <<Discover(lock)>>
  \o (IF lock \in files THEN <<Parse(parser), BuildBom(d)>> ELSE <<BuildBom(<<>>)>>)

\* a builder that runs tool when manifest is there without lock: its first part
\* (no tool run needed), and the tool run with what follows it
LockBuilderStart(manifest, lock, parser, toolStep) ==
  IF manifest \in path.files /\ lock \notin path.files
    THEN /\ events' = events \o <<Discover(lock), Discover(manifest)>>
         /\ dpc' = toolStep
    ELSE /\ \E d \in Yields(lock) :
              /\ lock \notin path.files => d = <<>>
              /\ events' = events \o <<Discover(lock), Discover(manifest)>>
                             \o LockFinish(lock, parser, path.files, d)
         /\ dpc' = "returned"

LockBuilderTool(tool, lock, parser) ==
  \E o \in Outcomes :
    LET result == spawnSync(o, 0) IN
    IF ~result.returns
      THEN /\ events' = Append(events, Spawn(tool, o, 0))
           /\ dpc' = "hung"
      ELSE /\ \E made \in (IF o = "exit0" THEN {{}, {lock}} ELSE {{}}), d \in Yields(lock) :
                /\ made = {} => d = <<>>
                /\ events' = events \o <<Spawn(tool, o, 0)>>
                               \o LockFinish(lock, parser, path.files \cup made, d)
           /\ dpc' = "returned"

\* createRustBom, up to 'cargo update'
CreateRustBom ==
  /\ dpc = "createRustBom"
  /\ LockBuilderStart("Cargo.toml", "Cargo.lock", "parseCargoData", "cargoUpdate")
  /\ UNCHANGED <<asmVars, env, args, options, path, pomIdx, pkgList>>
  /\ Callbacks

\* 'cargo update' and the rest of createRustBom
CargoUpdate ==
  /\ dpc = "cargoUpdate"
  /\ LockBuilderTool("cargo update", "Cargo.lock", "parseCargoData")
  /\ UNCHANGED <<asmVars, env, args, options, path, pomIdx, pkgList>>
  /\ Callbacks

\* createPHPBom, up to 'composer install'
CreatePHPBom ==
  /\ dpc = "createPHPBom"
  /\ LockBuilderStart("composer.json", "composer.lock", "parseComposerLock",
                      "composerInstall")
  /\ UNCHANGED <<asmVars, env, args, options, path, pomIdx, pkgList>>
  /\ Callbacks

\* 'composer install' and the rest of createPHPBom
ComposerInstall ==
  /\ dpc = "composerInstall"
  /\ LockBuilderTool("composer install", "composer.lock", "parseComposerLock")
  /\ UNCHANGED <<asmVars, env, args, options, path, pomIdx, pkgList>>
  /\ Callbacks

\* createRubyBom, up to 'bundle install'
CreateRubyBom ==
  /\ dpc = "createRubyBom"
  /\ LockBuilderStart("Gemfile", "Gemfile.lock", "parseGemfileLockData", "bundleInstall")
  /\ UNCHANGED <<asmVars, env, args, options, path, pomIdx, pkgList>>
  /\ Callbacks

\* 'bundle install' and the rest of createRubyBom
BundleInstall ==
  /\ dpc = "bundleInstall"
  /\ LockBuilderTool("bundle install", "Gemfile.lock", "parseGemfileLockData")
  /\ UNCHANGED <<asmVars, env, args, options, path, pomIdx, pkgList>>
  /\ Callbacks

\* createCsharpBom: packages.config files, else the .csproj files
CreateCsharpBom ==
  /\ dpc = "createCsharpBom"
  /\ LET found == <<Discover("*.csproj"), Discover("packages.config")>> IN
     IF "packages.config" \in path.files
       THEN \E d \in Yields("packages.config") :
              events' = events \o found \o <<Parse("parseCsPkgData"), BuildBom(d)>>
       ELSE IF "app.csproj" \in path.files
         THEN \E d \in Yields("app.csproj") :
                events' = events \o found \o <<Parse("parseCsProjData"), BuildBom(d)>>
         ELSE events' = events \o found \o <<BuildBom(<<>>)>>
  /\ dpc' = "returned"
  /\ UNCHANGED <<asmVars, env, args, options, path, pomIdx, pkgList>>
  /\ Callbacks

NextDriver ==
  \/ CreateBom
  \/ CreateXBom
  \/ CreateJavaBom
  \/ MvnAggregate
  \/ MvnDependencyTree
  \/ MvnBomFiles
  \/ GradleStage
  \/ SbtStage
  \/ CreateNodejsBom
  \/ RushInstall
  \/ CreatePythonBom
  \/ PipenvInstall
  \/ CreateGoBom
  \/ CreateRustBom
  \/ CargoUpdate
  \/ CreatePHPBom
  \/ ComposerInstall
  \/ CreateRubyBom
  \/ BundleInstall
  \/ CreateCsharpBom

DriverSpec == InitDriver /\ [][NextDriver]_vars

-----------------------------------------------------------------------------
(* Properties of the drivers *)

\* the call did nothing but check the path and, at its end, exit
OnlyExits ==
  /\ \A i \in 1..Len(events) : events[i].kind \in {"access", "exit"}
  /\ dpc \notin {"returned", "hung"}
  /\ dpc = "exited" => events[Len(events)] = Ev("exit", "1")

\* C17 (as claimed): when the path does not exist or cannot be read, createBom
\* looks for no manifest, starts no subprocess, parses nothing and calls no
\* callback, and ends by exiting the process with status 1, whatever the project
\* type option and also for a .war path.
C17_MissingPathExitsBeforeDiscovery ==
  ~path.readable => OnlyExits

\* C17, the part that holds: the same when no builder is selected by the project
\* type option or a .war path, so that createXBom is the one called
C17_AutoDetectMissingPathExits ==
  (~path.readable /\ Builder(options.projectType, path.war) = "createXBom") => OnlyExits

\* the aggregate build of events[i] is followed by the dependency:tree fallback
\* for the same pom
FallbackFollows(i) ==
  IF i = Len(events)
    THEN dpc = "mvnTree"
    ELSE /\ Len(events) >= i + 2
         /\ events[i + 1] = Ev("mkdtemp", Str(CdxMvn))
         /\ events[i + 2].kind = "spawn"
         /\ events[i + 2].what = "mvn dependency:tree"
         /\ events[i + 2].pom = events[i].pom

\* the aggregate builds among the events whose outcome is one of outcomes
AggregateBuilds(outcomes) ==
  {i \in 1..Len(events) :
     /\ events[i].kind = "spawn"
     /\ events[i].what = "mvn makeAggregateBom"
     /\ events[i].outcome \in outcomes}

\* C18 (as claimed): whenever the aggregate-plugin maven run times out or exits
\* with a non-zero status, the dependency:tree fallback is run next, for that pom.
C18_FallbackOnAnyFailure ==
  \A i \in AggregateBuilds(Outcomes \ {"exit0"}) : FallbackFollows(i)

\* C18, the part that holds: the fallback is run after a timeout and after exit
\* status 1
C18_FallbackOnTimeoutOrStatus1 ==
  \A i \in AggregateBuilds({"hang", "exit1"}) : FallbackFollows(i)

\* the index of the last subprocess event before events[j] (0 if there is none)
LastSpawnBefore(j) ==
  LET ks == {k \in 1..(j - 1) : events[k].kind = "spawn"}
  IN IF ks = {} THEN 0 ELSE CHOOSE k \in ks : \A m \in ks : m <= k

\* events[j] comes straight after a run of tool for the same pom that timed out
\* or exited with a non-zero status
AfterFailed(j, tool) ==
  LET k == LastSpawnBefore(j) IN
  /\ k > 0
  /\ events[k].what = tool
  /\ events[k].pom = events[j].pom
  /\ events[k].outcome # "exit0"

JvmTools == {"mvn makeAggregateBom", "mvn dependency:tree", "gradle projects",
             "gradle dependencies", "sbt dependencyList"}
LockTools == {"cargo update", "composer install", "bundle install"}

\* every run of one of tools among the events was started with the timeout, and
\* the call is not stuck in one
Bounded(tools) ==
  \A i \in 1..Len(events) :
    (events[i].kind = "spawn" /\ events[i].what \in tools) =>
      /\ events[i].timeout
      /\ ~(i = Len(events) /\ dpc = "hung")

\* C20 (as claimed): every maven, gradle, sbt, 'cargo update', 'composer install'
\* and 'bundle install' subprocess is started with the configured timeout, so
\* that createBom is never stuck in one that hangs.
C20_EveryBuildToolBounded ==
  Bounded(JvmTools \cup LockTools)

\* C20, the part that holds: the maven, gradle and sbt subprocesses are started
\* with the configured timeout
C20_JvmToolsBounded ==
  Bounded(JvmTools)

\* the temporary directory made at events[i] was removed before the step that
\* made it was left (by a callback or by an exception)
RemovedInStep(i) ==
  \E j \in (i + 1)..Len(events) :
    /\ events[j].kind = "rmdir"
    /\ events[j].what = events[i].what
    /\ \A k \in (i + 1)..(j - 1) : events[k].kind \notin {"callback", "throw", "mkdtemp"}

TempDirsRemoved ==
  \A i \in 1..Len(events) : events[i].kind = "mkdtemp" => RemovedInStep(i)

\* C21 (as claimed): every temporary directory createJavaBom made (war-deps-,
\* cdxmvn-) has been removed by the time the step that made it is left, on the
\* success path and when extraction, the metadata lookup or the parsing of the
\* tree throws; no path leaves the directory behind.
C21_TempDirsAlwaysRemoved ==
  TempDirsRemoved

\* C21, the part that holds: the same when TMPDIR is not set, or is written in
\* normalized form but for a slash at its end
C21_TempDirsRemovedUnderNormalizedTmpdir ==
  env.TMPDIR \in {TmpUnset, TmpSlash} => TempDirsRemoved

\* C21, the case of the part that holds: extraction threw with TMPDIR=/w/ and the
\* directory was removed
C21_WitnessRemovedOnThrow ==
  /\ env.TMPDIR = TmpSlash
  /\ dpc = "threw"
  /\ Len(events) = 4
  /\ events[1].kind = "mkdtemp"
  /\ events[3] = Ev("rmdir", Str(WarDeps))
  /\ events[4] = Ev("throw", "extractJarArchive")

\* the createBom call is over: it returned, threw, or exited the process
Ended == dpc \in {"returned", "threw", "exited"}

\* the callback events of the call
CallbackEvents == {i \in 1..Len(events) : events[i].kind = "callback"}

\* the manifests and lock files each builder looks for
BuilderFiles(builder) ==
  CASE builder = "createNodejsBom" ->
         {"pnpm-lock.yaml", "package-lock.json", "node_modules", "rush.json", "yarn.lock"}
    [] builder = "createJavaBom" ->
         {"pom.xml", "build.gradle", "project/build.properties", "build.sbt",
          "build.sbt.lock"}
    [] builder = "createPythonBom" ->
         {"Pipfile", "poetry.lock", "requirements.txt", "setup.py"}
    [] builder = "createGoBom" -> {"go.sum", "go.mod", "Gopkg.lock"}
    [] builder = "createRustBom" -> {"Cargo.toml", "Cargo.lock"}
    [] builder = "createPHPBom" -> {"composer.json", "composer.lock"}
    [] builder = "createRubyBom" -> {"Gemfile", "Gemfile.lock"}
    [] builder = "createCsharpBom" -> {"packages.config", "app.csproj"}
    [] OTHER -> {}

\* the builder createBom's switch called found none of its files (for a .war
\* path: the archive is not there)
NothingFound(builders) ==
  /\ Builder(options.projectType, path.war) \in builders
  /\ path.files \cap BuilderFiles(Builder(options.projectType, path.war)) = {}
  /\ path.war => ~path.readable

\* the caller was told 'no packages': one callback call, without BOM data
ToldNoPackages ==
  /\ dpc = "returned"
  /\ Cardinality(CallbackEvents) = 1
  /\ \A i \in CallbackEvents : events[i].bomData = "" /\ events[i].bomJsonData = ""

AllBuilders == {XBuilders[k].builder : k \in 1..Len(XBuilders)}

\* C22 (as claimed): for every builder createBom calls (nodejs, java, python, go,
\* rust, php, ruby, .Net), when the builder finds none of its manifests and lock
\* files, the call ends with the callback called once without BOM data and
\* without an error, and nothing thrown.
C22_NoManifestToldNoPackages ==
  (NothingFound(AllBuilders) /\ Ended) => ToldNoPackages

\* C22, the part that holds: the same for every builder but createPythonBom and
\* createJavaBom called on a directory
C22_NoManifestToldNoPackagesButPythonJava ==
  (/\ NothingFound(AllBuilders)
   /\ Ended
   /\ Builder(options.projectType, path.war) # "createPythonBom"
   /\ Builder(options.projectType, path.war) = "createJavaBom" => path.war)
    => ToldNoPackages

\* C22, the case of the part that holds: createGoBom found no go.sum, go.mod or
\* Gopkg.lock and called the callback without arguments
C22_WitnessGoToldNoPackages ==
  /\ options.projectType = "go"
  /\ path.files = {"package.json"}
  /\ ToldNoPackages

\* the builder that ran: the one createBom's switch called, or the one createXBom
\* went on to ("" if none)
Ran ==
  LET b == Builder(options.projectType, path.war) IN
  IF b # "createXBom" THEN b
  ELSE IF path.readable /\ XMatch(path.files) > 0
    THEN XBuilders[XMatch(path.files)].builder ELSE ""

\* createPythonBom's manifests in the order of its tests, with the parser each
\* one goes to and the file the packages come from
PySources ==
  <<[file |-> "Pipfile", parser |-> "parsePiplockData", source |-> "Pipfile.lock"],
    [file |-> "poetry.lock", parser |-> "parsePoetrylockData", source |-> "poetry.lock"],
    [file |-> "requirements.txt", parser |-> "parseReqFile", source |-> "requirements.txt"],
    [file |-> "setup.py", parser |-> "parseSetupPyFile", source |-> "setup.py"]>>

\* the index of the first manifest that is there (0 if none is)
PySource(files) ==
  LET ks == {k \in 1..Len(PySources) : PySources[k].file \in files}
  IN IF ks = {} THEN 0 ELSE CHOOSE k \in ks : \A m \in ks : k <= m

\* nothing but the manifest of highest precedence was parsed, and what reached
\* the callback came from it
OnlyFrom(chosen) ==
  /\ \A i \in 1..Len(events) :
       events[i].kind = "parse" => events[i].what = chosen.parser
  /\ \A i \in CallbackEvents : events[i].pkgs \in Yields(chosen.source)
  /\ Cardinality(CallbackEvents) <= 1

\* C23 (as claimed): when createPythonBom has run on a directory with at least one
\* of Pipfile, poetry.lock, requirements.txt and setup.py, only the one first in
\* the order Pipfile, poetry.lock, requirements.txt, setup.py was parsed, and the
\* callback was called with the result of parsing it.
C23_PythonPrecedenceAndDelivery ==
  (Ran = "createPythonBom" /\ PySource(path.files) > 0 /\ Ended) =>
    /\ OnlyFrom(PySources[PySource(path.files)])
    /\ Cardinality(CallbackEvents) = 1

\* C23, the part that holds: only the manifest first in that order is parsed and
\* only its packages reach the callback
C23_PythonPrecedence ==
  (Ran = "createPythonBom" /\ PySource(path.files) > 0) =>
    OnlyFrom(PySources[PySource(path.files)])

\* C23, the case of the part that holds: poetry.lock was chosen over
\* requirements.txt and its package was delivered
C23_WitnessPoetryOverRequirements ==
  /\ path.files = {"poetry.lock", "requirements.txt"}
  /\ dpc = "returned"
  /\ \E i \in CallbackEvents : events[i].pkgs = <<"poetry.lock">>

\* callback event i hands over both documents, or nothing
BothOrNothing(i) ==
  \/ events[i].bomData = "xml" /\ events[i].bomJsonData = "json"
  \/ events[i].bomData = "" /\ events[i].bomJsonData = ""

\* C24 (as claimed): whenever the callback is handed a BOM, it is handed the XML
\* document and the JSON document, both non-empty, on every code path (the one
\* after a successful aggregate maven build included).
C24_BothFormatsDelivered ==
  \A i \in CallbackEvents : BothOrNothing(i)

\* C24, the part that holds: every callback made by buildBomString hands over
\* both documents or nothing
C24_BuildBomStringDeliversBoth ==
  \A i \in CallbackEvents : events[i].what = "buildBomString" => BothOrNothing(i)

\* C24, the case of the part that holds: buildBomString handed over both
\* documents made from the gradle packages
C24_WitnessGradleBoth ==
  \E i \in CallbackEvents :
    /\ events[i].pkgs = <<"gradle">>
    /\ events[i].bomData = "xml" /\ events[i].bomJsonData = "json"

\* the fs.writeFile calls of the command line's callback that wrote data
Writes(data) ==
  {i \in 1..Len(effects) : effects[i].kind = "writeFile" /\ effects[i].data = data}

\* each document handed to the callback was written, and no XML document was
\* written to the file a JSON document was written to
WrittenApart ==
  /\ Cardinality(Writes("xml")) =
       Cardinality({i \in CallbackEvents : events[i].bomData = "xml"})
  /\ Cardinality(Writes("json")) =
       Cardinality({i \in CallbackEvents : events[i].bomJsonData = "json"})
  /\ \A i \in Writes("xml"), j \in Writes("json") : effects[i].file # effects[j].file

\* C25 (as claimed): when an output path is given, the command line writes the XML
\* document and the JSON document it was handed to two different files, whatever
\* the output path (with .xml, with .json, with neither).
C25_XmlAndJsonWrittenToDifferentFiles ==
  args.output # <<>> => WrittenApart

\* C25, the part that holds: the same for an output path with .xml or .json in it
C25_DifferentFilesWithExtension ==
  (IndexOf(args.output, DotXml) > 0 \/ IndexOf(args.output, DotJson) > 0) => WrittenApart

\* C25, the case of the part that holds: with --output b.json the JSON document
\* went to b.json and the XML document to b.xml
C25_WitnessJsonOutput ==
  /\ args.output = OutJson
  /\ \E i \in Writes("json") : effects[i].file = OutJson
  /\ \E i \in Writes("xml") : effects[i].file = OutXml

\* C26 (as claimed): every createBom call that has returned has called the
\* callback exactly once, whatever manifests are at the path and whatever the
\* project type.
C26_ExactlyOneCallback ==
  dpc = "returned" => Cardinality(CallbackEvents) = 1

\* C26, the part that holds: createNodejsBom without a rush.json, createGoBom,
\* createRustBom, createPHPBom, createRubyBom and createCsharpBom call the callback
\* exactly once
C26_ExactlyOneCallbackButJavaPythonRush ==
  (/\ dpc = "returned"
   /\ Ran \in AllBuilders \ {"createJavaBom", "createPythonBom"}
   /\ "rush.json" \notin path.files)
    => Cardinality(CallbackEvents) = 1

\* C26, the case of the part that holds: createRubyBom ran 'bundle install' and
\* called the callback once, with the packages of the Gemfile.lock it made
C26_WitnessRubyOnce ==
  /\ dpc = "returned"
  /\ Ran = "createRubyBom"
  /\ \E i \in 1..Len(events) : events[i].what = "bundle install"
  /\ Cardinality(CallbackEvents) = 1
  /\ events[Len(events)].pkgs = <<"Gemfile.lock">>

\* the dependency sources of a node.js project, highest priority first
NodePriority ==
  <<"pnpm-lock.yaml", "package-lock.json", "node_modules", "rush.json", "yarn.lock">>

\* the source of highest priority among files ("" if none is there)
HighestPresent(files) ==
  LET ks == {k \in 1..Len(NodePriority) : NodePriority[k] \in files}
  IN IF ks = {} THEN "" ELSE NodePriority[CHOOSE k \in ks : \A m \in ks : k <= m]

\* the parser of a source; for rush.json, shrinkwrap-deps.json comes before the
\* rush pnpm-lock.yaml
ParsersOf(source, files) ==
  CASE source = "pnpm-lock.yaml" -> {"parsePnpmLock"}
    [] source = "package-lock.json" -> {"parsePkgLock"}
    [] source = "node_modules" -> {"readInstalled"}
    [] source = "rush.json" -> IF "shrinkwrap-deps.json" \in files
                                THEN {"parseNodeShrinkwrap"} ELSE {"parsePnpmLock"}
    [] source = "yarn.lock" -> {"parseYarnLock"}
    [] OTHER -> {}

\* the dependency sources parsed so far (the scan for imports is none)
SourceParses ==
  {i \in 1..Len(events) : events[i].kind = "parse" /\ events[i].what # "findJSImports"}

C27_WitnessInstalledOverRush ==
  /\ Ran = "createNodejsBom"
  /\ path.files = {"node_modules", "rush.json", "yarn.lock"}
  /\ \E i \in CallbackEvents : events[i].pkgs = <<"node_modules">>

\* where the packages of each builder come from, by the names Yields gives them
BuilderSources(builder) ==
  CASE builder = "createNodejsBom" ->
         {"pnpm-lock.yaml", "package-lock.json", "node_modules", "rush", "yarn.lock"}
    [] builder = "createJavaBom" -> {"war", "pom.xml", "mvn-tree.txt", "gradle", "sbt"}
    [] builder = "createPythonBom" ->
         {"Pipfile.lock", "poetry.lock", "requirements.txt", "setup.py"}
    [] builder = "createGoBom" -> {"go.sum", "go.mod", "Gopkg.lock"}
    [] builder = "createRustBom" -> {"Cargo.lock"}
    [] builder = "createPHPBom" -> {"composer.lock"}
    [] builder = "createRubyBom" -> {"Gemfile.lock"}
    [] builder = "createCsharpBom" -> {"packages.config", "app.csproj"}
    [] OTHER -> {}

\* the builders createXBom called
Called == {events[i].what : i \in {j \in 1..Len(events) : events[j].kind = "call"}}

\* the manifests of ecosystem k of createXBom's order are at the path
Found(k) == XBuilders[k].files \cap path.files # {}

\* C28: without a project type, on a readable path, createXBom calls at most one
\* builder: that of the first ecosystem, in the order node.js, JVM, Python, Go,
\* Rust, PHP, Ruby, .Net, whose manifests are found (none when none is found);
\* the packages handed to the callback all come from that builder's sources.
C28_FirstEcosystemOnly ==
  (Builder(options.projectType, path.war) = "createXBom" /\ path.readable) =>
    /\ Cardinality({i \in 1..Len(events) : events[i].kind = "call"}) <= 1
    /\ \A k \in 1..Len(XBuilders) :
         XBuilders[k].builder \in Called => (Found(k) /\ \A m \in 1..(k - 1) : ~Found(m))
    /\ (dpc \notin {"createBom", "createXBom"} /\ \E k \in 1..Len(XBuilders) : Found(k))
         => Called # {}
    /\ \A i \in CallbackEvents : \A n \in 1..Len(events[i].pkgs) :
         \E b \in Called : events[i].pkgs[n] \in BuilderSources(b)

\* C28 witness: the directory holds a Rust manifest and a Ruby lock file;
\* createRustBom alone was called and the packages of Cargo.lock were delivered
C28_Witness ==
  /\ options.projectType = ""
  /\ path.files = {"Cargo.toml", "Gemfile.lock"}
  /\ Called = {"createRustBom"}
  /\ dpc = "returned"
  /\ \E i \in CallbackEvents : events[i].pkgs = <<"Cargo.lock">>

-----------------------------------------------------------------------------
(* Properties of the walk below excluded records *)

\* the k-th addComponent call of the walk is the one on the root record
RootCall(k) == k = 1 /\ ~pkgInfo.isArray /\ ptype = "npm"

\* the k-th call did not return before the dependencies: the record is not
\* extraneous, and not an npm @types record unless it is the root
Descends(k) ==
  /\ ~heap[visited[k]].extraneous
  /\ RootCall(k) \/ ~(ptype = "npm" /\ UnderTypes(heap[visited[k]]))

\* the records a walk can come to: those listComponents is handed, and the
\* dependencies of the ones among them it does not return early on
RECURSIVE ReachBelow(_, _)
ReachBelow(from, roots) ==
  LET open == {j \in from : /\ ~heap[j].extraneous
                            /\ j \in roots \/ ~(ptype = "npm" /\ UnderTypes(heap[j]))}
      more == from \cup UNION {Targets(j) : j \in open}
  IN IF more = from THEN from ELSE ReachBelow(more, roots)

Walkable ==
  LET first == FirstCalls(pkgInfo, ptype)
  IN ReachBelow({first[k].pkg : k \in 1..Len(first)},
                {first[k].pkg : k \in {k \in 1..Len(first) : first[k].isRootPkg}})

\* C29: addComponent is called on a record only as often as listComponents hands
\* it over or a dependency entry leads to it from a call that did not return
\* early, so nothing below an extraneous record or an npm @types record is
\* visited through it; every record visited, every component and every purl
\* delivered belongs to a record that can be reached without passing through an
\* excluded record.
C29_NoDescentBelowExcluded ==
  /\ \A i \in DOMAIN heap :
       Visits(i) <= FirstVisits(i)
                    + Cardinality({k \in 1..Len(visited) :
                                     <<visited[k], i>> \in HeapEdges /\ Descends(k)})
  /\ \A k \in 1..Len(visited) : visited[k] \in Walkable
  /\ \A k \in 1..Len(list) : list[k].rec \in Walkable
  /\ \A n \in 1..3 : \A k \in 1..Len(Outputs[n]) :
       \E i \in Walkable : Outputs[n][k].purl = PurlString(ptype, heap[i])

\* C29 witness: a finished walk that met an excluded record whose dependency,
\* reachable through it only, was never visited and has no component
C29_Witness ==
  /\ pc = "done"
  /\ components # <<>>
  /\ \E k \in 1..Len(visited) :
       /\ ~Descends(k)
       /\ \E m \in Targets(visited[k]) :
            /\ m \notin Walkable
            /\ Visits(m) = 0
            /\ \A j \in 1..Len(ListOutput) : ListOutput[j].purl # PurlString(ptype, heap[m])

-----------------------------------------------------------------------------
(* Properties of the command line's callback *)

\* the bom.submitBom calls of the command line's callback
Submits == {i \in 1..Len(effects) : effects[i].kind = "submitBom"}

\* C30 (as claimed): bom.submitBom is called only when the server URL and the API
\* key are both given and the callback was handed BOM data, and what it posts is
\* a BOM document: never nothing (callback called without a BOM) and never a list
\* of file paths.
C30_SubmitsOnlyBomDocument ==
  \A i \in Submits :
    /\ args.serverUrl /\ args.apiKey
    /\ effects[i].data = "xml"

\* C30, the part that holds: bom.submitBom is called only when the server URL and
\* the API key are both given, once for each callback call
C30_SubmitsOnlyWithServerAndKey ==
  /\ Submits # {} => (args.serverUrl /\ args.apiKey)
  /\ (args.serverUrl /\ args.apiKey) => Cardinality(Submits) = Cardinality(CallbackEvents)

\* C30, the case of the part that holds: with both given, the XML document handed
\* to the callback was posted
C30_WitnessDocumentPosted ==
  /\ args.serverUrl /\ args.apiKey
  /\ \E i \in Submits : effects[i].data = "xml"
  /\ \E i \in CallbackEvents : events[i].bomData = "xml"

====
